---- MODULE Spec2Model ----
(***************************************************************************)
(* A model of src/utils/MuiCss.cpp (SumatraPDF): css-like properties that  *)
(* are interned in gAllProps, styles that hold them and inherit from one   *)
(* another, the resolver FindProps, and the font cache gCachedFonts.       *)
(*                                                                         *)
(* A Prop* is modelled by the position of its Prop in gAllProps: every     *)
(* Prop that is created with new is appended to gAllProps in the same      *)
(* function and nothing is removed from gAllProps before Destroy, so the   *)
(* position identifies the object.  NULL is 0.  A Font* is the position of *)
(* the Font in the sequence of all Font objects ever constructed.          *)
(***************************************************************************)
EXTENDS Integers, Sequences, FiniteSets, TLC

\* ---------------------------------------------------------------- bounds

\* API calls made after Initialize (lifecycle calls are not counted).
MaxCalls == 2
MaxFontCalls == 8

\* ---------------------------------------------------------------- tags

NULL == 0

WidthTags ==
    {"PropBorderTopWidth", "PropBorderRightWidth",
     "PropBorderBottomWidth", "PropBorderLeftWidth"}

ColorTags ==
    {"PropColor", "PropBgColor", "PropBorderTopColor", "PropBorderRightColor",
     "PropBorderBottomColor", "PropBorderLeftColor"}

PropTypes ==
    {"PropFontName", "PropFontSize", "PropFontWeight", "PropPadding"}
        \cup WidthTags \cup ColorTags

IsWidthProp(type) ==
    \/ "PropBorderTopWidth" = type
    \/ "PropBorderRightWidth" = type
    \/ "PropBorderBottomWidth" = type
    \/ "PropBorderLeftWidth" = type

IsColorProp(type) ==
    \/ "PropColor" = type
    \/ "PropBgColor" = type
    \/ "PropBorderTopColor" = type
    \/ "PropBorderRightColor" = type
    \/ "PropBorderBottomColor" = type
    \/ "PropBorderLeftColor" = type

\* The member of Prop that Prop::Eq reads for a tag.
MemberOf(type) ==
    CASE type = "PropFontName"   -> "fontName"
      [] type = "PropFontSize"   -> "fontSize"
      [] type = "PropFontWeight" -> "fontWeight"
      [] type = "PropPadding"    -> "padding"
      [] IsColorProp(type)       -> "color"
      [] IsWidthProp(type)       -> "width"

\* Gdiplus::FontStyle and Gdiplus::LinearGradientMode values are the strings
\* of their names ("FontStyleBold", "LinearGradientModeVertical").

\* ---------------------------------------------------------------- ARGB

\* An ARGB (32 bit unsigned) is the tuple of its four bytes <<a, r, g, b>>,
\* most significant first.
RECURSIVE BitOr(_, _)
BitOr(x, y) ==
    IF x = 0 THEN y
    ELSE IF y = 0 THEN x
    ELSE (IF x % 2 = 1 \/ y % 2 = 1 THEN 1 ELSE 0) + 2 * BitOr(x \div 2, y \div 2)

\* Byte k (0 = least significant) of (ARGB)x, x an int in two's complement.
ByteOf(x, k) ==
    CASE k = 0 -> x % 256
      [] k = 1 -> (x \div 256) % 256
      [] k = 2 -> (x \div 65536) % 256
      [] k = 3 -> (x \div 16777216) % 256

MKARGB(a, r, g, b) ==
    << BitOr(BitOr(ByteOf(b, 3), ByteOf(g, 2)), BitOr(ByteOf(r, 1), ByteOf(a, 0))),
       BitOr(BitOr(ByteOf(b, 2), ByteOf(g, 1)), ByteOf(r, 0)),
       BitOr(ByteOf(b, 1), ByteOf(g, 0)),
       ByteOf(b, 0) >>

MKRGB(r, g, b) == MKARGB(255, r, g, b)

\* ---------------------------------------------------------------- strings

\* A C string is the sequence of its characters (one-character strings).
Str_black == <<"b", "l", "a", "c", "k">>
Str_white == <<"w", "h", "i", "t", "e">>
Str_gray == <<"g", "r", "a", "y">>
Str_red == <<"r", "e", "d">>
Str_green == <<"g", "r", "e", "e", "n">>
Str_blue == <<"b", "l", "u", "e">>
Str_transparent == <<"t", "r", "a", "n", "s", "p", "a", "r", "e", "n", "t">>
Str_yellow == <<"y", "e", "l", "l", "o", "w">>
Str_888 == <<"#", "8", "8", "8">>
Str_777 == <<"#", "7", "7", "7">>
Str_666 == <<"#", "6", "6", "6">>

UpperCase == <<"A", "B", "C", "D", "E", "F", "G", "H", "I", "J", "K", "L", "M",
               "N", "O", "P", "Q", "R", "S", "T", "U", "V", "W", "X", "Y", "Z">>
LowerCase == <<"a", "b", "c", "d", "e", "f", "g", "h", "i", "j", "k", "l", "m",
               "n", "o", "p", "q", "r", "s", "t", "u", "v", "w", "x", "y", "z">>

ToLower(c) ==
    IF \E i \in 1..26 : UpperCase[i] = c
    THEN LowerCase[CHOOSE i \in 1..26 : UpperCase[i] = c]
    ELSE c

\* str::EqI: equality of C strings ignoring the case of letters.
StrEqI(s, t) ==
    /\ Len(s) = Len(t)
    /\ \A i \in 1..Len(s) : ToLower(s[i]) = ToLower(t[i])

DecDigits == <<"0", "1", "2", "3", "4", "5", "6", "7", "8", "9">>

IsDigit(c) == \E i \in 1..10 : DecDigits[i] = c
DigitVal(c) == (CHOOSE i \in 1..10 : DecDigits[i] = c) - 1

IsHexDigit(c) == IsDigit(c) \/ ToLower(c) \in {"a", "b", "c", "d", "e", "f"}
HexVal(c) ==
    IF IsDigit(c) THEN DigitVal(c)
    ELSE CASE ToLower(c) = "a" -> 10 [] ToLower(c) = "b" -> 11
           [] ToLower(c) = "c" -> 12 [] ToLower(c) = "d" -> 13
           [] ToLower(c) = "e" -> 14 [] ToLower(c) = "f" -> 15

\* Position after the run of decimal digits of s that starts at pos.
RECURSIVE DigitsEnd(_, _)
DigitsEnd(s, pos) ==
    IF pos <= Len(s) /\ IsDigit(s[pos]) THEN DigitsEnd(s, pos + 1) ELSE pos

\* Value of the decimal digits s[from .. to-1].
RECURSIVE DigitsVal(_, _, _)
DigitsVal(s, from, to) ==
    IF from >= to THEN 0
    ELSE 10 * DigitsVal(s, from, to - 1) + DigitVal(s[to - 1])

RECURSIVE SkipWs(_, _)
SkipWs(s, pos) ==
    IF pos <= Len(s) /\ s[pos] = " " THEN SkipWs(s, pos + 1) ELSE pos

\* The %d directive of str::Parse (strtol, base 10): white space, an optional
\* sign, decimal digits; fails when there is no digit.
ScanInt(s, pos) ==
    LET p0 == SkipWs(s, pos)
        signed == p0 <= Len(s) /\ s[p0] \in {"-", "+"}
        p1 == IF signed THEN p0 + 1 ELSE p0
        p2 == DigitsEnd(s, p1)
        v == DigitsVal(s, p1, p2)
    IN  [ok |-> p2 > p1,
         val |-> IF signed /\ s[p0] = "-" THEN 0 - v ELSE v,
         next |-> p2]

\* The %f directive of str::Parse (strtod) on a decimal integer: white space,
\* an optional sign, decimal digits.  Numbers with a fraction or an exponent
\* are not modelled: the scan stops in front of the "." or the "e".
ScanFloat(s, pos) == ScanInt(s, pos)

\* The %Nx directive of str::Parse: exactly n hexadecimal digits.
ScanHex(s, pos, n) ==
    LET ok == /\ pos + n - 1 <= Len(s)
              /\ \A i \in pos..(pos + n - 1) : IsHexDigit(s[i])
    IN  [ok |-> ok,
         val |-> IF ~ok THEN 0
                 ELSE IF n = 1 THEN HexVal(s[pos])
                 ELSE 16 * HexVal(s[pos]) + HexVal(s[pos + 1]),
         next |-> pos + n]

\* str::Parse(str, format, ...): format is a sequence of tokens, a token being
\* a literal character or one of the directives %d, %f, %1x, %2x, %$, or %%
\* for a literal per cent sign.  The result
\* is [ok, vals]: whether str matches and the values stored through the
\* pointer arguments, in order.  Characters after the match are allowed.
RECURSIVE StrParseFrom(_, _, _, _, _)
StrParseFrom(s, pos, fmt, f, vals) ==
    IF f > Len(fmt) THEN [ok |-> TRUE, vals |-> vals]
    ELSE LET tok == fmt[f] IN
         CASE tok = "%d" ->
                LET r == ScanInt(s, pos) IN
                IF r.ok THEN StrParseFrom(s, r.next, fmt, f + 1, Append(vals, r.val))
                ELSE [ok |-> FALSE, vals |-> vals]
           [] tok = "%f" ->
                LET r == ScanFloat(s, pos) IN
                IF r.ok THEN StrParseFrom(s, r.next, fmt, f + 1, Append(vals, r.val))
                ELSE [ok |-> FALSE, vals |-> vals]
           [] tok = "%%" ->
                IF pos <= Len(s) /\ s[pos] = "%"
                THEN StrParseFrom(s, pos + 1, fmt, f + 1, vals)
                ELSE [ok |-> FALSE, vals |-> vals]
           [] tok \in {"%1x", "%2x"} ->
                LET r == ScanHex(s, pos, IF tok = "%1x" THEN 1 ELSE 2) IN
                IF r.ok THEN StrParseFrom(s, r.next, fmt, f + 1, Append(vals, r.val))
                ELSE [ok |-> FALSE, vals |-> vals]
           [] tok = "%$" ->
                IF pos > Len(s) THEN StrParseFrom(s, pos, fmt, f + 1, vals)
                ELSE [ok |-> FALSE, vals |-> vals]
           [] OTHER ->
                IF pos <= Len(s) /\ s[pos] = tok
                THEN StrParseFrom(s, pos + 1, fmt, f + 1, vals)
                ELSE [ok |-> FALSE, vals |-> vals]

StrParse(s, fmt) == StrParseFrom(s, 1, fmt, 1, <<>>)

Fmt_Hex3 == <<"#", "%1x", "%1x", "%1x", "%$">>
Fmt_Hex6 == <<"#", "%2x", "%2x", "%2x", "%$">>
Fmt_Rgb == <<"r", "g", "b", "(", "%d", ",", "%d", ",", "%d", ")">>
Fmt_Rgba == <<"r", "g", "b", "a", "(", "%d", ",", "%d", ",", "%d", ",", "%d", ")">>
Fmt_RgbPct ==
    <<"r", "g", "b", "(", "%f", "%%", ",", "%f", "%%", ",", "%f", "%%", ")">>
Fmt_RgbaPct ==
    <<"r", "g", "b", "a", "(", "%f", "%%", ",", "%f", "%%", ",", "%f", "%%", ",",
      "%f", "%%", ")">>

RECURSIVE Pow2(_)
Pow2(n) == IF n = 0 THEN 1 ELSE 2 * Pow2(n - 1)

\* The exponent of the power of two at or below x, x >= 1.
RECURSIVE Log2Floor(_)
Log2Floor(x) == IF x < 2 THEN 0 ELSE 1 + Log2Floor(x \div 2)

(***************************************************************************)
(* (int)(f * 2.55f) for the float f of integer value n, 0 <= n <= 900.     *)
(* 2.55f is the float nearest to 2.55, 10695475 / 2^22 = 2 + 2306867/2^22. *)
(* The product is a float: the exact product rounded to 24 significant     *)
(* bits, to nearest.  The conversion to int drops the fraction, so the     *)
(* rounding shows only when the exact product lies within half a unit in   *)
(* the last place below an integer.  With whole the integer part and rest  *)
(* the fraction of the exact product in units of 2^-22, the unit in the    *)
(* last place of a product in [2^e, 2^(e+1)) is 2^(e-23), half of it is    *)
(* 2^(e-2) units of 2^-22.                                                 *)
(* A build that keeps the product in a wider format before the conversion  *)
(* gives whole in every case.                                              *)
(***************************************************************************)
PercentToByteAbs(n) ==
    LET whole == 2 * n + (n * 2306867) \div 4194304
        rest == (n * 2306867) % 4194304
        e == Log2Floor(whole)
    IN  IF n = 0 THEN 0
        ELSE IF rest # 0 /\ (4194304 - rest) * 4 <= Pow2(e) THEN whole + 1
        ELSE whole

\* (int)(f * 2.55f): the conversion truncates toward zero.
PercentToByte(n) == IF n < 0 THEN 0 - PercentToByteAbs(0 - n) ELSE PercentToByteAbs(n)

gKnownColors ==
    << [name |-> Str_black,       color |-> MKRGB(0, 0, 0)],
       [name |-> Str_white,       color |-> MKRGB(255, 255, 255)],
       [name |-> Str_gray,        color |-> MKRGB(128, 128, 128)],
       [name |-> Str_red,         color |-> MKRGB(255, 0, 0)],
       [name |-> Str_green,       color |-> MKRGB(0, 128, 0)],
       [name |-> Str_blue,        color |-> MKRGB(0, 0, 255)],
       [name |-> Str_transparent, color |-> MKARGB(0, 0, 0, 0)],
       [name |-> Str_yellow,      color |-> MKRGB(255, 255, 0)] >>

\* The table lookup with opaque black as the value for a name not in the table.
RECURSIVE KnownColorFrom_OpaqueFallback(_, _)
KnownColorFrom_OpaqueFallback(color, i) ==
    IF i > Len(gKnownColors) THEN MKARGB(255, 0, 0, 0)
    ELSE IF StrEqI(gKnownColors[i].name, color) THEN gKnownColors[i].color
    ELSE KnownColorFrom_OpaqueFallback(color, i + 1)

\* The loop over gKnownColors at the end of ParseCssColor.
RECURSIVE KnownColorFrom(_, _)
KnownColorFrom(color, i) ==
    IF i > Len(gKnownColors) THEN MKARGB(0, 0, 0, 0)
    ELSE IF StrEqI(gKnownColors[i].name, color) THEN gKnownColors[i].color
    ELSE KnownColorFrom(color, i + 1)

ParseCssColor(color) ==
    LET h3 == StrParse(color, Fmt_Hex3)
        h6 == StrParse(color, Fmt_Hex6)
        d3 == StrParse(color, Fmt_Rgb)
        d4 == StrParse(color, Fmt_Rgba)
        p3 == StrParse(color, Fmt_RgbPct)
        p4 == StrParse(color, Fmt_RgbaPct)
    IN  IF h3.ok
        THEN MKRGB(BitOr(h3.vals[1], h3.vals[1] * 16),
                   BitOr(h3.vals[2], h3.vals[2] * 16),
                   BitOr(h3.vals[3], h3.vals[3] * 16))
        ELSE IF h6.ok THEN MKRGB(h6.vals[1], h6.vals[2], h6.vals[3])
        ELSE IF d3.ok THEN MKRGB(d3.vals[1], d3.vals[2], d3.vals[3])
        ELSE IF d4.ok THEN MKARGB(d4.vals[4], d4.vals[1], d4.vals[2], d4.vals[3])
        \* float fa = 1.0f: the alpha of the form without alpha is 1 per cent
        ELSE IF p3.ok
        THEN MKARGB(PercentToByte(1), PercentToByte(p3.vals[1]),
                    PercentToByte(p3.vals[2]), PercentToByte(p3.vals[3]))
        ELSE IF p4.ok
        THEN MKARGB(PercentToByte(p4.vals[4]), PercentToByte(p4.vals[1]),
                    PercentToByte(p4.vals[2]), PercentToByte(p4.vals[3]))
        ELSE KnownColorFrom(color, 1)


\* ---------------------------------------------------------------- Prop

(***************************************************************************)
(* A Prop is [type, kind, val]: its tag, the payload member that the       *)
(* constructor wrote (fontName, fontSize, fontWeight, padding, color,      *)
(* width) and the value written there.  Prop::Eq reads the member that     *)
(* belongs to the tag, MemberOf(type).  Every constructor but two writes   *)
(* that member; AllocWidth and AllocColorLinearGradient take the tag as an *)
(* argument without checking it, so they can write another member, and     *)
(* Prop::Eq then reads data that was never written.  The members share the *)
(* storage of the Prop: fontSize.size and width.width are each the one     *)
(* float of their member, so a read of either gives the float written      *)
(* through the other.                                                      *)
(***************************************************************************)
\* A read through member gives the value that was written through kind.
Overlays(kind, member) ==
    \/ kind = member
    \/ kind \in {"fontSize", "width"} /\ member \in {"fontSize", "width"}

FontNameProp(name) == [type |-> "PropFontName", kind |-> "fontName", val |-> name]
FontSizeProp(size) == [type |-> "PropFontSize", kind |-> "fontSize", val |-> size]
FontWeightProp(style) == [type |-> "PropFontWeight", kind |-> "fontWeight", val |-> style]
WidthProp(type, width) == [type |-> type, kind |-> "width", val |-> width]
PaddingProp(top, right, bottom, left) ==
    [type |-> "PropPadding", kind |-> "padding",
     val |-> [top |-> top, right |-> right, bottom |-> bottom, left |-> left]]
ColorSolidProp(type, color) ==
    [type |-> type, kind |-> "color",
     val |-> [type |-> "ColorSolid", color |-> color]]
ColorLinearGradientProp(type, mode, startColor, endColor) ==
    [type |-> type, kind |-> "color",
     val |-> [type |-> "ColorGradientLinear", mode |-> mode,
              startColor |-> startColor, endColor |-> endColor]]

ColorDataEq(this, other) ==
    IF this.type # other.type THEN FALSE
    ELSE IF this.type = "ColorSolid" THEN this.color = other.color
    ELSE IF this.type = "ColorGradientLinear"
    THEN /\ this.mode = other.mode
         /\ this.startColor = other.startColor
         /\ this.endColor = other.endColor
    ELSE FALSE

\* PaddingData::operator== that forgets the last field.
PaddingDataEq_NoLeft(this, other) ==
    /\ this.top = other.top
    /\ this.right = other.right
    /\ this.bottom = other.bottom

PaddingDataEq(this, other) ==
    /\ this.top = other.top
    /\ this.right = other.right
    /\ this.bottom = other.bottom
    /\ this.left = other.left

\* Prop::Eq that never finds two font weights equal.
PropEq_WeightNeverEq(this, other) ==
    IF this.type # other.type THEN FALSE
    ELSE CASE this.type = "PropFontName"   -> this.val = other.val
           [] this.type = "PropFontSize"   -> this.val = other.val
           [] this.type = "PropFontWeight" -> FALSE
           [] this.type = "PropPadding"    -> PaddingDataEq(this.val, other.val)
           [] IsColorProp(this.type)       -> ColorDataEq(this.val, other.val)
           [] IsWidthProp(this.type)       -> this.val = other.val

\* Prop::Eq for two Props whose written member is the one their tag reads.
PropEq(this, other) ==
    IF this.type # other.type THEN FALSE
    ELSE CASE this.type = "PropFontName"   -> this.val = other.val
           [] this.type = "PropFontSize"   -> this.val = other.val
           [] this.type = "PropFontWeight" -> this.val = other.val
           [] this.type = "PropPadding"    -> PaddingDataEq(this.val, other.val)
           [] IsColorProp(this.type)       -> ColorDataEq(this.val, other.val)
           [] IsWidthProp(this.type)       -> this.val = other.val

\* Whether Prop::Eq on this Prop reads a member the constructor did not write.
ReadsUnwritten(prop) == ~Overlays(prop.kind, MemberOf(prop.type))

\* FindExistingProp may stop with a crash instead of a result: str::Eq
\* follows a font name pointer that was never set, ColorData::Eq reaches
\* CrashIf(true) on a color type that was never set.
CRASH == 0 - 1

(***************************************************************************)
(* FindExistingProp(prop) over the table all: the set of results it can    *)
(* have (a position, NULL, or CRASH).  When no comparison on the way reads *)
(* unwritten data the set has one element: the first entry equal to prop   *)
(* under Prop::Eq, or NULL.  A comparison that reads unwritten data can    *)
(* come out either way.                                                    *)
(***************************************************************************)
RECURSIVE FindExistingPropFrom(_, _, _)
FindExistingPropFrom(all, prop, i) ==
    IF i > Len(all) THEN {NULL}
    ELSE LET p == all[i] IN
         IF p.type # prop.type THEN FindExistingPropFrom(all, prop, i + 1)
         ELSE IF ReadsUnwritten(p) \/ ReadsUnwritten(prop)
         THEN {i} \cup FindExistingPropFrom(all, prop, i + 1)
                  \cup (IF prop.type = "PropFontName" \/ IsColorProp(prop.type)
                        THEN {CRASH} ELSE {})
         ELSE IF PropEq(p, prop) THEN {i}
         ELSE FindExistingPropFrom(all, prop, i + 1)

\* FindExistingProp with a loop that starts at the second entry.
FindExistingProp_SkipFirst(all, prop) == FindExistingPropFrom(all, prop, 2)

FindExistingProp(all, prop) == FindExistingPropFrom(all, prop, 1)

(***************************************************************************)
(* The body shared by every constructor (ALLOC_BODY and its hand-written   *)
(* copies): look the candidate up, return the entry found, else create a   *)
(* Prop, append it to gAllProps and return it.  The result is the set of   *)
(* outcomes [all, ret, crash]: the table afterwards, the Prop* returned,   *)
(* and whether the lookup crashed.                                         *)
(***************************************************************************)
\* ALLOC_BODY that puts a new Prop in front of the others.
ALLOC_BODY_Prepend(all, prop) ==
    { IF r = CRASH THEN [all |-> all, ret |-> NULL, crash |-> TRUE]
      ELSE IF r # NULL THEN [all |-> all, ret |-> r, crash |-> FALSE]
      ELSE [all |-> <<prop>> \o all, ret |-> 1, crash |-> FALSE]
      : r \in FindExistingProp(all, prop) }

ALLOC_BODY(all, prop) ==
    { IF r = CRASH THEN [all |-> all, ret |-> NULL, crash |-> TRUE]
      ELSE IF r # NULL THEN [all |-> all, ret |-> r, crash |-> FALSE]
      ELSE [all |-> Append(all, prop), ret |-> Len(all) + 1, crash |-> FALSE]
      : r \in FindExistingProp(all, prop) }

\* ---------------------------------------------------------------- Style

\* Style::Set on the property sequence props of a style; all is gAllProps.
RECURSIVE StyleSetFrom(_, _, _, _)
StyleSetFrom(props, prop, all, i) ==
    IF i > Len(props) THEN Append(props, prop)
    ELSE IF all[props[i]].type = all[prop].type THEN [props EXCEPT ![i] = prop]
    ELSE StyleSetFrom(props, prop, all, i + 1)

\* Style::Set without the search for an entry of the same tag.
StyleSet_AlwaysAppend(props, prop, all) == Append(props, prop)

StyleSet(props, prop, all) == StyleSetFrom(props, prop, all, 1)

(***************************************************************************)
(* style->Set(Prop::Alloc...(...)) for each candidate of cands in turn,    *)
(* from position k: the set of outcomes [all, props, crash].               *)
(***************************************************************************)
RECURSIVE SetEach(_, _, _, _)
SetEach(all, props, cands, k) ==
    IF k > Len(cands) THEN {[all |-> all, props |-> props, crash |-> FALSE]}
    ELSE UNION { IF o.crash THEN {[all |-> o.all, props |-> props, crash |-> TRUE]}
                 ELSE SetEach(o.all, StyleSet(props, o.ret, o.all), cands, k + 1)
                 : o \in ALLOC_BODY(all, cands[k]) }

SetBorderWidthProps(width) ==
    << WidthProp("PropBorderTopWidth", width),
       WidthProp("PropBorderRightWidth", width),
       WidthProp("PropBorderBottomWidth", width),
       WidthProp("PropBorderLeftWidth", width) >>

SetBorderColorProps(color) ==
    << ColorSolidProp("PropBorderTopColor", color),
       ColorSolidProp("PropBorderRightColor", color),
       ColorSolidProp("PropBorderBottomColor", color),
       ColorSolidProp("PropBorderLeftColor", color) >>


\* ---------------------------------------------------------------- resolver

\* A PropToFind array is a sequence of [type, prop]; prop is NULL until found.
FoundAllProps(propsToFind) ==
    \A i \in 1..Len(propsToFind) : propsToFind[i].prop # NULL

\* SetPropIfFound(prop, propsToFind): [didSet, propsToFind afterwards].
RECURSIVE SetPropIfFoundFrom(_, _, _, _)
SetPropIfFoundFrom(prop, propsToFind, all, i) ==
    IF i > Len(propsToFind) THEN [didSet |-> FALSE, propsToFind |-> propsToFind]
    ELSE IF propsToFind[i].type # all[prop].type
    THEN SetPropIfFoundFrom(prop, propsToFind, all, i + 1)
    ELSE IF propsToFind[i].prop = NULL
    THEN [didSet |-> TRUE, propsToFind |-> [propsToFind EXCEPT ![i].prop = prop]]
    ELSE [didSet |-> FALSE, propsToFind |-> propsToFind]

\* SetPropIfFound that passes over a slot that is already set and goes on to
\* the next slot of the tag.
RECURSIVE SetPropIfFound_NextFreeSlotFrom(_, _, _, _)
SetPropIfFound_NextFreeSlotFrom(prop, propsToFind, all, i) ==
    IF i > Len(propsToFind) THEN [didSet |-> FALSE, propsToFind |-> propsToFind]
    ELSE IF propsToFind[i].type = all[prop].type /\ propsToFind[i].prop = NULL
    THEN [didSet |-> TRUE, propsToFind |-> [propsToFind EXCEPT ![i].prop = prop]]
    ELSE SetPropIfFound_NextFreeSlotFrom(prop, propsToFind, all, i + 1)

SetPropIfFound_NextFreeSlot(prop, propsToFind, all) ==
    SetPropIfFound_NextFreeSlotFrom(prop, propsToFind, all, 1)

\* SetPropIfFound without the test for a slot that is already set.
SetPropIfFound_Overwrite(prop, propsToFind, all) ==
    LET has == {i \in 1..Len(propsToFind) : propsToFind[i].type = all[prop].type}
    IN  IF has = {} THEN [didSet |-> FALSE, propsToFind |-> propsToFind]
        ELSE [didSet |-> TRUE,
              propsToFind |-> [propsToFind EXCEPT
                                  ![CHOOSE i \in has : \A j \in has : i <= j].prop = prop]]

SetPropIfFound(prop, propsToFind, all) == SetPropIfFoundFrom(prop, propsToFind, all, 1)

NullStyle == "NULL"

\* FindProps(Style *props, ...): the loops over curr and i.  st is the styles,
\* all is gAllProps.  The chain from curr must be acyclic.
RECURSIVE FindPropsLoop(_, _, _, _, _)
FindPropsLoop(st, all, curr, i, propsToFind) ==
    IF curr = NullStyle THEN propsToFind
    ELSE IF i > Len(st[curr].props)
    THEN FindPropsLoop(st, all, st[curr].inheritsFrom, 1, propsToFind)
    ELSE LET r == SetPropIfFound(st[curr].props[i], propsToFind, all) IN
         IF r.didSet /\ FoundAllProps(r.propsToFind) THEN r.propsToFind
         ELSE FindPropsLoop(st, all, curr, i + 1, r.propsToFind)

FindProps1(st, all, props, propsToFind) == FindPropsLoop(st, all, props, 1, propsToFind)

\* FindProps(first, second, ...) that never looks at the second chain.
FindProps2_FirstOnly(st, all, first, second, propsToFind) ==
    FindProps1(st, all, first, propsToFind)

\* FindProps(first, second, ...) with the two chains searched in the other order.
FindProps2_SecondFirst(st, all, first, second, propsToFind) ==
    FindProps1(st, all, first, FindProps1(st, all, second, propsToFind))

\* FindProps(Style *first, Style *second, ...).
FindProps2(st, all, first, second, propsToFind) ==
    FindProps1(st, all, second, FindProps1(st, all, first, propsToFind))

FindProp(st, all, first, second, type) ==
    FindProps2(st, all, first, second, <<[type |-> type, prop |-> NULL]>>)[1].prop

\* FontCacheEntry::Eq that compares the font of the entries as well.
FontCacheEntryEq_WithFont(this, other) ==
    /\ this.fontName = other.fontName
    /\ this.fontSize = other.fontSize
    /\ this.fontWeight = other.fontWeight
    /\ this.font = other.font

\* FontCacheEntry::Eq.
FontCacheEntryEq(this, other) ==
    /\ this.fontName = other.fontName
    /\ this.fontSize = other.fontSize
    /\ this.fontWeight = other.fontWeight

\* The loop over gCachedFonts in CachedFontFromProps: the position of the
\* first entry equal to c, or 0.
RECURSIVE CachedFontLookup(_, _, _)
CachedFontLookup(cache, c, i) ==
    IF i > Len(cache) THEN 0
    ELSE IF FontCacheEntryEq(cache[i], c) THEN i
    ELSE CachedFontLookup(cache, c, i + 1)


\* ---------------------------------------------------------------- state

GlobalStyles == {"gStyleDefault", "gStyleButtonDefault", "gStyleButtonMouseOver"}
UserStyles == {"userStyle"}
StyleIds == GlobalStyles \cup UserStyles

VARIABLES
    gAllPropsPtr,   \* the pointer gAllProps: "NULL", "live" or "dangling" (deleted)
    gAllProps,      \* the Props of *gAllProps, in order
    gCachedFonts,   \* the FontCacheEntry records of *gCachedFonts, in order
    styles,         \* style -> [props, inheritsFrom, deleted]
    propHeap,       \* per Prop ever created with new: [ownsName, deleted, nameFreed]
    fonts,          \* per Font ever created with ::new: [name, size, style, deleted]
    vecDeleted,     \* how often each of the two Vec objects was deleted
    crashed,        \* "none", or the function whose check ended the process
    last,           \* the last call: [op, args, ret, nProps, nFonts]
    nCalls          \* calls made since Initialize

vars == <<nCalls, gAllPropsPtr, gAllProps, gCachedFonts, styles, propHeap, fonts,
          vecDeleted, crashed, last>>

\* new Style(): no properties, inherits from nothing.
NewStyle == [props |-> <<>>, inheritsFrom |-> NullStyle, deleted |-> 0]

Init ==
    /\ gAllPropsPtr = "NULL"
    /\ gAllProps = <<>>
    /\ gCachedFonts = <<>>
    /\ styles = [s \in StyleIds |-> NewStyle]
    /\ propHeap = <<>>
    /\ fonts = <<>>
    /\ vecDeleted = [gAllProps |-> 0, gCachedFonts |-> 0]
    /\ crashed = "none"
    /\ last = [op |-> "none", args |-> <<>>, ret |-> NULL, nProps |-> 0, nFonts |-> 0]
    /\ nCalls = 0

\* The record of a call op(args) that returned ret; nProps and nFonts are the
\* numbers of Props and Fonts that existed when the call was made.
Call(op, args, ret) ==
    [op |-> op, args |-> args, ret |-> ret,
     nProps |-> Len(gAllProps), nFonts |-> Len(fonts)]

\* The heap records after the Props of all beyond those of heap were created;
\* ownsName: the Prop holds a str::Dup copy of a font name.
NewPropObjs(heap, all) ==
    heap \o [i \in 1..(Len(all) - Len(heap)) |->
                [ownsName |-> all[Len(heap) + i].kind = "fontName",
                 deleted |-> 0, nameFreed |-> 0]]

\* ---------------------------------------------------------------- lifecycle

DefaultStyleProps ==
    << FontNameProp("Times New Roman"),
       FontSizeProp(14),
       FontWeightProp("FontStyleBold"),
       ColorSolidProp("PropColor", ParseCssColor(Str_black)),
       ColorLinearGradientProp("PropBgColor", "LinearGradientModeVertical",
                               MKRGB(245, 246, 246), MKRGB(228, 228, 227)) >>
    \o SetBorderWidthProps(1)
    \o SetBorderColorProps(MKRGB(153, 153, 153))
    \o << ColorSolidProp("PropBorderBottomColor", ParseCssColor(Str_888)),
          PaddingProp(0, 0, 0, 0) >>

ButtonDefaultStyleProps ==
    << PaddingProp(4, 8, 4, 8),
       FontNameProp("Lucida Grande"),
       FontSizeProp(8),
       FontWeightProp("FontStyleBold") >>

\* The hover style without a bottom border color of its own.
ButtonMouseOverStyleProps_NoBottom ==
    << ColorSolidProp("PropBorderTopColor", ParseCssColor(Str_777)),
       ColorSolidProp("PropBorderRightColor", ParseCssColor(Str_777)) >>

ButtonMouseOverStyleProps ==
    << ColorSolidProp("PropBorderTopColor", ParseCssColor(Str_777)),
       ColorSolidProp("PropBorderRightColor", ParseCssColor(Str_777)),
       ColorSolidProp("PropBorderBottomColor", ParseCssColor(Str_666)) >>

Initialize ==
    /\ crashed = "none"
    /\ IF gAllPropsPtr # "NULL"
       THEN /\ crashed' = "Initialize"
            /\ last' = Call("Initialize", <<>>, NULL)
            /\ UNCHANGED <<gAllPropsPtr, gAllProps, gCachedFonts, styles,
                           propHeap, fonts, vecDeleted, nCalls>>
       ELSE \E d \in SetEach(<<>>, <<>>, DefaultStyleProps, 1) :
            \E b \in SetEach(d.all, <<>>, ButtonDefaultStyleProps, 1) :
            \E m \in SetEach(b.all, <<>>, ButtonMouseOverStyleProps, 1) :
                /\ gAllPropsPtr' = "live"
                /\ gAllProps' = m.all
                /\ gCachedFonts' = <<>>
                /\ styles' = [styles EXCEPT
                        !["gStyleDefault"] =
                            [props |-> d.props, inheritsFrom |-> NullStyle,
                             deleted |-> 0],
                        !["gStyleButtonDefault"] =
                            [props |-> b.props, inheritsFrom |-> "gStyleDefault",
                             deleted |-> 0],
                        !["gStyleButtonMouseOver"] =
                            [props |-> m.props, inheritsFrom |-> "gStyleButtonDefault",
                             deleted |-> 0]]
                /\ propHeap' = NewPropObjs(propHeap, m.all)
                /\ last' = Call("Initialize", <<>>, NULL)
                /\ UNCHANGED <<fonts, vecDeleted, crashed, nCalls>>

\* DeleteVecMembers(*gAllProps): delete every member; ~Prop frees the name of
\* a PropFontName.
DeleteVecMembers(heap, all) ==
    [i \in 1..Len(heap) |->
        IF i \in 1..Len(all)
        THEN [ownsName |-> heap[i].ownsName,
              deleted |-> heap[i].deleted + 1,
              nameFreed |-> heap[i].nameFreed
                              + (IF all[i].type = "PropFontName" THEN 1 ELSE 0)]
        ELSE heap[i]]

\* The loop of DeleteCachedFonts: ::delete c.font for every entry, in order.
RECURSIVE DeleteCachedFontsFrom(_, _, _)
DeleteCachedFontsFrom(fs, cache, i) ==
    IF i > Len(cache) THEN fs
    ELSE DeleteCachedFontsFrom(
            [fs EXCEPT ![cache[i].font].deleted = @ + 1], cache, i + 1)

\* DeleteCachedFonts with a loop that starts at the second entry.
DeleteCachedFonts_SkipFirst(fs, cache) == DeleteCachedFontsFrom(fs, cache, 2)

DeleteCachedFonts(fs, cache) == DeleteCachedFontsFrom(fs, cache, 1)

\* Destroy that deletes gStyleDefault as well.
Destroy_DeleteDefault ==
    /\ crashed = "none"
    /\ gAllPropsPtr = "live"
    /\ propHeap' = DeleteVecMembers(propHeap, gAllProps)
    /\ gAllPropsPtr' = "dangling"
    /\ gAllProps' = <<>>
    /\ styles' = [styles EXCEPT !["gStyleDefault"].deleted = @ + 1,
                                !["gStyleButtonDefault"].deleted = @ + 1,
                                !["gStyleButtonMouseOver"].deleted = @ + 1]
    /\ fonts' = DeleteCachedFonts(fonts, gCachedFonts)
    /\ gCachedFonts' = <<>>
    /\ vecDeleted' = [gAllProps |-> vecDeleted.gAllProps + 1,
                      gCachedFonts |-> vecDeleted.gCachedFonts + 1]
    /\ last' = Call("Destroy", <<>>, NULL)
    /\ UNCHANGED <<crashed, nCalls>>

\* Destroy, called once on an initialized core.
Destroy ==
    /\ crashed = "none"
    /\ gAllPropsPtr = "live"
    /\ propHeap' = DeleteVecMembers(propHeap, gAllProps)
    /\ gAllPropsPtr' = "dangling"
    /\ gAllProps' = <<>>
    /\ styles' = [styles EXCEPT !["gStyleButtonDefault"].deleted = @ + 1,
                                !["gStyleButtonMouseOver"].deleted = @ + 1]
    /\ fonts' = DeleteCachedFonts(fonts, gCachedFonts)
    /\ gCachedFonts' = <<>>
    /\ vecDeleted' = [gAllProps |-> vecDeleted.gAllProps + 1,
                      gCachedFonts |-> vecDeleted.gCachedFonts + 1]
    /\ last' = Call("Destroy", <<>>, NULL)
    /\ UNCHANGED <<crashed, nCalls>>


\* ---------------------------------------------------------------- inputs

NameInputs == {"Times New Roman", "Arial"}
SizeInputs == {14, 10}
WeightInputs == {"FontStyleBold", "FontStyleRegular"}
WidthTagInputs == {"PropBorderTopWidth", "PropBorderLeftWidth"}
WidthInputs == {1, 2}
PaddingInputs ==
    {<<0, 0, 0, 0>>, <<1, 0, 0, 0>>, <<0, 1, 0, 0>>, <<0, 0, 1, 0>>, <<0, 0, 0, 1>>}
ColorTagInputs == {"PropColor", "PropBorderTopColor"}
NonColorTagInputs == {"PropFontSize"}
ARGBInputs == {MKRGB(0, 0, 0), MKRGB(153, 153, 153)}
ARGBComponentInputs == {<<255, 0, 0, 0>>, <<0, 0, 0, 0>>}
RGBComponentInputs == {<<119, 119, 119>>}
Str_bogus == <<"b", "o", "g", "u", "s">>
ColorStrInputs == {Str_transparent, Str_777, Str_bogus}
ModeInputs == {"LinearGradientModeHorizontal", "LinearGradientModeVertical"}
GradientInputs ==
    {<<MKRGB(245, 246, 246), MKRGB(228, 228, 227)>>, <<MKRGB(0, 0, 0), MKRGB(0, 0, 0)>>}
GradientStrInputs == {<<Str_bogus, Str_white>>}
SetStyleInputs == {"userStyle", "gStyleButtonDefault"}
SetTagInputs == {"PropFontName", "PropFontSize", "PropFontWeight", "PropBorderTopColor"}
StyleArgInputs == {"userStyle", "gStyleButtonMouseOver", NullStyle}
ParentInputs == StyleIds \cup {NullStyle}
SecondStyleInputs == {NullStyle, "gStyleDefault"}
FindTagInputs == {"PropFontName", "PropBorderTopColor"}

\* ---------------------------------------------------------------- calls

\* The core is initialized and the process runs.
Running ==
    /\ crashed = "none"
    /\ gAllPropsPtr = "live"

\* The core is initialized, the process runs, and a call is left in the bound.
Ready == Running /\ nCalls < MaxCalls

\* What a constructor call op(args) whose candidate is prop does.
ConstructBody(op, args, prop) ==
    /\ \E o \in ALLOC_BODY(gAllProps, prop) :
         /\ gAllProps' = o.all
         /\ propHeap' = NewPropObjs(propHeap, o.all)
         /\ crashed' = IF o.crash THEN "FindExistingProp" ELSE crashed
         /\ last' = Call(op, args, o.ret)
    /\ nCalls' = nCalls + 1
    /\ UNCHANGED <<gAllPropsPtr, gCachedFonts, styles, fonts, vecDeleted>>

\* A constructor call op(args) whose candidate is prop.
Construct(op, args, prop) == Ready /\ ConstructBody(op, args, prop)

\* A call op(args) that ends in a failed CrashIf of function fn.
Crash(fn, op, args) ==
    /\ Ready
    /\ crashed' = fn
    /\ last' = Call(op, args, NULL)
    /\ nCalls' = nCalls + 1
    /\ UNCHANGED <<gAllPropsPtr, gAllProps, gCachedFonts, styles, propHeap,
                   fonts, vecDeleted>>

AllocFontName(name) ==
    Construct("AllocFontName", <<name>>, FontNameProp(name))

AllocFontSize(size) ==
    Construct("AllocFontSize", <<size>>, FontSizeProp(size))

AllocFontWeight(style) ==
    Construct("AllocFontWeight", <<style>>, FontWeightProp(style))

AllocWidth(type, width) ==
    Construct("AllocWidth", <<type, width>>, WidthProp(type, width))

AllocPadding(top, right, bottom, left) ==
    Construct("AllocPadding", <<top, right, bottom, left>>,
              PaddingProp(top, right, bottom, left))

\* The body of AllocColorSolid(PropType, ARGB), reached under the name op.
AllocColorSolidBody(op, args, type, color) ==
    IF ~IsColorProp(type) THEN Crash("AllocColorSolid", op, args)
    ELSE Construct(op, args, ColorSolidProp(type, color))

AllocColorSolid(type, color) ==
    AllocColorSolidBody("AllocColorSolid", <<type, color>>, type, color)

AllocColorSolidARGB(type, a, r, g, b) ==
    AllocColorSolidBody("AllocColorSolidARGB", <<type, a, r, g, b>>, type,
                        MKARGB(a, r, g, b))

AllocColorSolidRGB(type, r, g, b) ==
    AllocColorSolidBody("AllocColorSolidRGB", <<type, r, g, b>>, type,
                        MKARGB(255, r, g, b))

AllocColorSolidStr(type, color) ==
    AllocColorSolidBody("AllocColorSolidStr", <<type, color>>, type,
                        ParseCssColor(color))

AllocColorLinearGradient(type, mode, startColor, endColor) ==
    Construct("AllocColorLinearGradient", <<type, mode, startColor, endColor>>,
              ColorLinearGradientProp(type, mode, startColor, endColor))

AllocColorLinearGradientStr(type, mode, startColor, endColor) ==
    Construct("AllocColorLinearGradientStr", <<type, mode, startColor, endColor>>,
              ColorLinearGradientProp(type, mode, ParseCssColor(startColor),
                                      ParseCssColor(endColor)))

\* What style->Set(prop) does.
SetBody(style, prop) ==
    /\ styles' = [styles EXCEPT ![style].props = StyleSet(@, prop, gAllProps)]
    /\ last' = Call("Set", <<style, prop>>, NULL)
    /\ nCalls' = nCalls + 1
    /\ UNCHANGED <<gAllPropsPtr, gAllProps, gCachedFonts, propHeap, fonts,
                   vecDeleted, crashed>>

\* style->Set(prop), prop a Prop* that a constructor returned earlier.
Set(style, prop) == Ready /\ SetBody(style, prop)

\* style->SetBorderWidth(..) and style->SetBorderColor(..): four constructor
\* calls, each followed by Set.
SetBorder(op, style, arg, cands) ==
    /\ Ready
    /\ \E o \in SetEach(gAllProps, styles[style].props, cands, 1) :
         /\ gAllProps' = o.all
         /\ propHeap' = NewPropObjs(propHeap, o.all)
         /\ styles' = [styles EXCEPT ![style].props = o.props]
         /\ crashed' = IF o.crash THEN "FindExistingProp" ELSE crashed
    /\ last' = Call(op, <<style, arg>>, NULL)
    /\ nCalls' = nCalls + 1
    /\ UNCHANGED <<gAllPropsPtr, gCachedFonts, fonts, vecDeleted>>

SetBorderWidth(style, width) ==
    SetBorder("SetBorderWidth", style, width, SetBorderWidthProps(width))

SetBorderColor(style, color) ==
    SetBorder("SetBorderColor", style, color, SetBorderColorProps(color))

\* The styles on the chain that starts at style (NullStyle: none).
RECURSIVE Chain(_, _)
Chain(st, style) ==
    IF style = NullStyle THEN {} ELSE {style} \cup Chain(st, st[style].inheritsFrom)

\* style->inheritsFrom = parent, by the owner of the style; the owner keeps
\* the chain acyclic.
SetInheritsFrom(style, parent) ==
    /\ Ready
    /\ style \notin Chain(styles, parent)
    /\ styles' = [styles EXCEPT ![style].inheritsFrom = parent]
    /\ last' = Call("SetInheritsFrom", <<style, parent>>, NULL)
    /\ nCalls' = nCalls + 1
    /\ UNCHANGED <<gAllPropsPtr, gAllProps, gCachedFonts, propHeap, fonts,
                   vecDeleted, crashed>>

\* FindProp(first, second, type); the Prop* found is the return value.
CallFindProp(first, second, type) ==
    /\ Ready
    /\ last' = Call("FindProp", <<first, second, type>>,
                     FindProp(styles, gAllProps, first, second, type))
    /\ nCalls' = nCalls + 1
    /\ UNCHANGED <<gAllPropsPtr, gAllProps, gCachedFonts, styles, propHeap,
                   fonts, vecDeleted, crashed>>

FontPropsToFind ==
    << [type |-> "PropFontName", prop |-> NULL],
       [type |-> "PropFontSize", prop |-> NULL],
       [type |-> "PropFontWeight", prop |-> NULL] >>

\* A CrashIf that fires only when all three are missing.
FontPropsMissing_All(fontName, fontSize, fontWeight) ==
    fontName = NULL /\ fontSize = NULL /\ fontWeight = NULL

\* The condition of the CrashIf that follows the resolution in
\* CachedFontFromProps.
FontPropsMissing(fontName, fontSize, fontWeight) ==
    fontName = NULL \/ fontSize = NULL \/ fontWeight = NULL

\* A font name pointer that was never set.
WildName == "(wild pointer)"

\* The int whose bits are those of the float of whole value n, |n| < 2^24:
\* sign, exponent + 127 in 8 bits, the 23 bits below the leading one.
FloatBits(n) ==
    LET m == IF n < 0 THEN 0 - n ELSE n
        e == Log2Floor(m)
        bits == (e + 127) * Pow2(23) + (m - Pow2(e)) * Pow2(23 - e)
    IN  IF n = 0 THEN 0
        ELSE IF n < 0 THEN (bits - Pow2(30)) - Pow2(30)
        ELSE bits

\* The float whose bits are those of the int b, 0 <= b < 2^31: its value when
\* that is a whole number, else [significand, exponent] for the value
\* significand * 2^exponent.  Exponent field 0 is a denormal, 255 is not met.
FloatOfBits(b) ==
    LET field == b \div Pow2(23)
        frac == b % Pow2(23)
        sig == Pow2(23) + frac
    IN  IF b = 0 THEN 0
        ELSE IF field = 0 THEN [significand |-> frac, exponent |-> 0 - 149]
        ELSE IF field >= 150 THEN sig * Pow2(field - 150)
        ELSE IF field >= 127 /\ sig % Pow2(150 - field) = 0
        THEN sig \div Pow2(150 - field)
        ELSE [significand |-> sig, exponent |-> field - 150]

\* The values of the enum FontStyle: FontStyleRegular is 0, FontStyleBold 1.
FontStyleInt(style) == IF style = "FontStyleBold" THEN 1 ELSE 0

\* The FontStyle of int value i; a value that no enumerator has stays an int.
FontStyleOfInt(i) ==
    IF i = 0 THEN "FontStyleRegular" ELSE IF i = 1 THEN "FontStyleBold" ELSE i

\* The values of the enum ColorType: ColorSolid is 0, ColorGradientLinear 1.
ColorTypeInt(type) == IF type = "ColorGradientLinear" THEN 1 ELSE 0

\* The first four bytes of the payload of a Prop, as an int: the float of a
\* font size or a width, the style of a font weight, the type of a color,
\* the top of a padding.  (The payload of a font name is a pointer; a Prop
\* with one is made by AllocFontName only and has the tag PropFontName.)
FirstWord(prop) ==
    CASE prop.kind \in {"fontSize", "width"} -> FloatBits(prop.val)
      [] prop.kind = "fontWeight" -> FontStyleInt(prop.val)
      [] prop.kind = "color" -> ColorTypeInt(prop.val.type)
      [] prop.kind = "padding" -> prop.val.top

(***************************************************************************)
(* What the Font constructor can read from a Prop through member.  The     *)
(* members of a Prop share its storage, so the read gives the value        *)
(* written when it was written through that member or through one of the   *)
(* same layout (a width read as a font size), and else the first bytes of  *)
(* the payload taken as the type of the member: as a float for the size,   *)
(* as a FontStyle for the weight.  Taken as a name they are a pointer that *)
(* was never set; the read of the name through it stops the process or     *)
(* finds some string.                                                      *)
(***************************************************************************)
ReadMember(prop, member) ==
    IF Overlays(prop.kind, member) THEN {prop.val}
    ELSE CASE member = "fontSize" -> {FloatOfBits(FirstWord(prop))}
           [] member = "fontWeight" -> {FontStyleOfInt(FirstWord(prop))}
           [] member = "fontName" -> {WildName} \cup NameInputs

CachedFontFromPropsBody(first, second) ==
    /\ nCalls' = nCalls + 1
    /\ LET propsToFind ==
               FindProps2(styles, gAllProps, first, second, FontPropsToFind)
           fontName == propsToFind[1].prop
           fontSize == propsToFind[2].prop
           fontWeight == propsToFind[3].prop
           c == [fontName |-> fontName, fontSize |-> fontSize,
                 fontWeight |-> fontWeight, font |-> NULL]
           i == CachedFontLookup(gCachedFonts, c, 1)
           args == <<first, second>>
       IN  IF FontPropsMissing(fontName, fontSize, fontWeight)
           THEN /\ crashed' = "CachedFontFromProps"
                /\ last' = Call("CachedFontFromProps", args, NULL)
                /\ UNCHANGED <<gCachedFonts, fonts>>
           ELSE IF i # 0
           THEN /\ crashed' = IF gCachedFonts[i].font = NULL
                              THEN "CachedFontFromProps" ELSE crashed
                /\ last' = Call("CachedFontFromProps", args, gCachedFonts[i].font)
                /\ UNCHANGED <<gCachedFonts, fonts>>
           ELSE IF fontName = NULL \/ fontSize = NULL \/ fontWeight = NULL
           THEN \* fontName->fontName.name etc.: a NULL pointer is followed
                /\ crashed' = "NULL dereference"
                /\ last' = Call("CachedFontFromProps", args, NULL)
                /\ UNCHANGED <<gCachedFonts, fonts>>
           ELSE \E name \in ReadMember(gAllProps[fontName], "fontName"),
                   size \in ReadMember(gAllProps[fontSize], "fontSize"),
                   style \in ReadMember(gAllProps[fontWeight], "fontWeight") :
                IF name = WildName
                THEN /\ crashed' = "Font"
                     /\ last' = Call("CachedFontFromProps", args, NULL)
                     /\ UNCHANGED <<gCachedFonts, fonts>>
                ELSE /\ fonts' = Append(fonts,
                             [name |-> name, size |-> size, style |-> style,
                              deleted |-> 0])
                     /\ gCachedFonts' =
                            Append(gCachedFonts, [c EXCEPT !.font = Len(fonts) + 1])
                     /\ last' = Call("CachedFontFromProps", args, Len(fonts) + 1)
                     /\ UNCHANGED crashed
    /\ UNCHANGED <<gAllPropsPtr, gAllProps, styles, propHeap, vecDeleted>>

CachedFontFromProps(first, second) == Ready /\ CachedFontFromPropsBody(first, second)

\* ---------------------------------------------------------------- specification

Next ==
    \/ Initialize
    \/ Destroy
    \/ \E name \in NameInputs : AllocFontName(name)
    \/ \E size \in SizeInputs : AllocFontSize(size)
    \/ \E style \in WeightInputs : AllocFontWeight(style)
    \/ \E type \in WidthTagInputs, width \in WidthInputs : AllocWidth(type, width)
    \/ \E p \in PaddingInputs : AllocPadding(p[1], p[2], p[3], p[4])
    \/ \E type \in ColorTagInputs \cup NonColorTagInputs, color \in ARGBInputs :
            AllocColorSolid(type, color)
    \/ \E type \in ColorTagInputs \cup NonColorTagInputs, c \in ARGBComponentInputs :
            AllocColorSolidARGB(type, c[1], c[2], c[3], c[4])
    \/ \E type \in ColorTagInputs \cup NonColorTagInputs, c \in RGBComponentInputs :
            AllocColorSolidRGB(type, c[1], c[2], c[3])
    \/ \E type \in ColorTagInputs \cup NonColorTagInputs, color \in ColorStrInputs :
            AllocColorSolidStr(type, color)
    \/ \E type \in ColorTagInputs, mode \in ModeInputs, g \in GradientInputs :
            AllocColorLinearGradient(type, mode, g[1], g[2])
    \/ \E type \in ColorTagInputs, mode \in ModeInputs, g \in GradientStrInputs :
            AllocColorLinearGradientStr(type, mode, g[1], g[2])
    \/ \E style \in SetStyleInputs, prop \in 1..Len(gAllProps) :
            /\ gAllProps[prop].type \in SetTagInputs
            /\ Set(style, prop)
    \/ \E style \in SetStyleInputs, width \in WidthInputs : SetBorderWidth(style, width)
    \/ \E style \in SetStyleInputs, color \in ARGBInputs : SetBorderColor(style, color)
    \/ \E style \in UserStyles, parent \in ParentInputs : SetInheritsFrom(style, parent)
    \/ \E first \in StyleArgInputs, second \in SecondStyleInputs, type \in FindTagInputs :
            CallFindProp(first, second, type)
    \/ \E first \in StyleArgInputs, second \in SecondStyleInputs :
            CachedFontFromProps(first, second)

Spec == Init /\ [][Next]_vars

\* AllocWidth and AllocColorLinearGradient do not look at the tag they are
\* given.  NextAnyTag adds the calls of these two with a tag of another
\* family; the constructors then compare members that were never written.
NonWidthTagInputs == {"PropFontSize", "PropColor"}

NextAnyTag ==
    \/ Next
    \/ \E type \in NonWidthTagInputs, width \in WidthInputs : AllocWidth(type, width)
    \/ \E type \in NonColorTagInputs, mode \in ModeInputs, g \in GradientInputs :
            AllocColorLinearGradient(type, mode, g[1], g[2])
    \/ \E type \in NonColorTagInputs, mode \in ModeInputs, g \in GradientStrInputs :
            AllocColorLinearGradientStr(type, mode, g[1], g[2])

SpecAnyTag == Init /\ [][NextAnyTag]_vars


\* ---------------------------------------------------------------- claims

ConstructorOps ==
    {"AllocFontName", "AllocFontSize", "AllocFontWeight", "AllocWidth",
     "AllocPadding", "AllocColorSolid", "AllocColorSolidARGB", "AllocColorSolidRGB",
     "AllocColorSolidStr", "AllocColorLinearGradient", "AllocColorLinearGradientStr"}

\* The tag and payload that the constructor call c asks for.
Requested(c) ==
    CASE c.op = "AllocFontName" -> FontNameProp(c.args[1])
      [] c.op = "AllocFontSize" -> FontSizeProp(c.args[1])
      [] c.op = "AllocFontWeight" -> FontWeightProp(c.args[1])
      [] c.op = "AllocWidth" -> WidthProp(c.args[1], c.args[2])
      [] c.op = "AllocPadding" -> PaddingProp(c.args[1], c.args[2], c.args[3], c.args[4])
      [] c.op = "AllocColorSolid" -> ColorSolidProp(c.args[1], c.args[2])
      [] c.op = "AllocColorSolidARGB" ->
            ColorSolidProp(c.args[1], MKARGB(c.args[2], c.args[3], c.args[4], c.args[5]))
      [] c.op = "AllocColorSolidRGB" ->
            ColorSolidProp(c.args[1], MKARGB(255, c.args[2], c.args[3], c.args[4]))
      [] c.op = "AllocColorSolidStr" ->
            ColorSolidProp(c.args[1], ParseCssColor(c.args[2]))
      [] c.op = "AllocColorLinearGradient" ->
            ColorLinearGradientProp(c.args[1], c.args[2], c.args[3], c.args[4])
      [] c.op = "AllocColorLinearGradientStr" ->
            ColorLinearGradientProp(c.args[1], c.args[2], ParseCssColor(c.args[3]),
                                    ParseCssColor(c.args[4]))

\* Same tag and same payload.
SameValue(p, q) == p.type = q.type /\ p.kind = q.kind /\ p.val = q.val

\* This step is a call of a constructor that returned.
ConstructorReturned ==
    /\ nCalls' = nCalls + 1
    /\ last'.op \in ConstructorOps
    /\ crashed' = "none"

\* C1. Interning uniqueness: gAllProps never holds two distinct entries with
\* the same tag and the same payload, and a constructor call whose tag and
\* payload equal those of an entry returns that entry and leaves gAllProps as
\* it was.
C1_InterningUniqueness ==
    [][ /\ \A i, j \in 1..Len(gAllProps') :
              SameValue(gAllProps'[i], gAllProps'[j]) => i = j
        /\ ConstructorReturned =>
              \A i \in 1..Len(gAllProps) :
                  SameValue(gAllProps[i], Requested(last')) =>
                      /\ last'.ret = i
                      /\ gAllProps' = gAllProps ]_vars

\* C1 witness: a color that Initialize interned from the string "#777" is
\* asked for again by its components; the call returned the entry of
\* Initialize and created no Prop.
C1_Witness ==
    /\ last.op = "AllocColorSolidRGB"
    /\ last.args = <<"PropBorderTopColor", 119, 119, 119>>
    /\ last.ret = 19
    /\ Len(gAllProps) = last.nProps


\* This step is a call of CachedFontFromProps.
CachedFontCalled ==
    /\ nCalls' = nCalls + 1
    /\ last'.op = "CachedFontFromProps"

\* The property of tag type that the style holds itself, or NULL.
OwnProp(st, all, style, type) ==
    LET has == {i \in 1..Len(st[style].props) : all[st[style].props[i]].type = type}
    IN  IF has = {} THEN NULL
        ELSE st[style].props[CHOOSE i \in has : \A j \in has : i <= j]

\* The property of tag type of the nearest style that has one, on the chain
\* that starts at style; NULL when no style of the chain has one.
RECURSIVE NearestProp(_, _, _, _)
NearestProp(st, all, style, type) ==
    IF style = NullStyle THEN NULL
    ELSE IF OwnProp(st, all, style, type) # NULL THEN OwnProp(st, all, style, type)
    ELSE NearestProp(st, all, st[style].inheritsFrom, type)

\* C2. Font cache identity reuse: the font cache never holds two entries with
\* the same (name, size, weight) pointers; a CachedFontFromProps call whose
\* resolved pointers are those of an entry returns the font of that entry,
\* constructs no Font and adds no entry; a call that returns leaves an entry
\* with the resolved pointers and the returned font; and no call before
\* Destroy changes an entry.
C2_FontCacheIdentityReuse ==
    [][ /\ \A i, j \in 1..Len(gCachedFonts') :
              ( /\ gCachedFonts'[i].fontName = gCachedFonts'[j].fontName
                /\ gCachedFonts'[i].fontSize = gCachedFonts'[j].fontSize
                /\ gCachedFonts'[i].fontWeight = gCachedFonts'[j].fontWeight )
              => i = j
        /\ last'.op # "Destroy" =>
              \A i \in 1..Len(gCachedFonts) :
                  i <= Len(gCachedFonts') /\ gCachedFonts'[i] = gCachedFonts[i]
        /\ (CachedFontCalled /\ crashed' = "none") =>
              LET name == FindProp(styles, gAllProps, last'.args[1], last'.args[2],
                                   "PropFontName")
                  size == FindProp(styles, gAllProps, last'.args[1], last'.args[2],
                                   "PropFontSize")
                  weight == FindProp(styles, gAllProps, last'.args[1], last'.args[2],
                                     "PropFontWeight")
                  IsKey(e) == e.fontName = name /\ e.fontSize = size
                                  /\ e.fontWeight = weight
              IN  /\ \A i \in 1..Len(gCachedFonts) :
                        IsKey(gCachedFonts[i]) =>
                            /\ last'.ret = gCachedFonts[i].font
                            /\ fonts' = fonts
                            /\ gCachedFonts' = gCachedFonts
                  /\ \E i \in 1..Len(gCachedFonts') :
                        IsKey(gCachedFonts'[i]) /\ gCachedFonts'[i].font = last'.ret
      ]_vars

\* C2 witness: the second of two CachedFontFromProps calls, made through
\* another style that resolves to the same three Props, returned the font of
\* the first call and constructed none.
C2_Witness ==
    /\ nCalls = 2
    /\ last.op = "CachedFontFromProps"
    /\ last.args = <<"gStyleButtonMouseOver", NullStyle>>
    /\ last.nFonts = 1
    /\ Len(fonts) = 1
    /\ Len(gCachedFonts) = 1
    /\ last.ret = gCachedFonts[1].font
    /\ styles["userStyle"] = NewStyle
    /\ gCachedFonts[1].fontName = 17

\* Sequences of wanted tags that the resolver is checked on: single tags,
\* one of each family, the three font tags, and lists that mix tags of
\* several styles.
WantedLists ==
    {<<t>> : t \in {"PropFontName", "PropBorderBottomColor", "PropBorderLeftWidth",
                    "PropPadding"}}
        \cup {<<"PropFontName", "PropFontSize", "PropFontWeight">>,
              <<"PropBorderTopColor", "PropFontName">>,
              <<"PropPadding", "PropBorderBottomColor", "PropFontSize", "PropColor">>}

ToFind(wanted) == [i \in 1..Len(wanted) |-> [type |-> wanted[i], prop |-> NULL]]

\* The calls that write the properties or the parent link of a style.
StyleWriters ==
    {"Initialize", "Set", "SetBorderWidth", "SetBorderColor", "SetInheritsFrom"}

\* C3. Inheritance precedence: resolving a tag from a style gives the
\* property of that tag held by the nearest style of the chain that has one
\* (the style itself first, then its parent, and so on).  Stated for the
\* result of every FindProp call with a single chain, and, after every call
\* that writes a style, for every style and every list of WantedLists.
C3_InheritancePrecedence ==
    /\ (last.op = "FindProp" /\ last.args[2] = NullStyle) =>
           last.ret = NearestProp(styles, gAllProps, last.args[1], last.args[3])
    /\ (last.op \in StyleWriters /\ crashed = "none") =>
           \A style \in StyleIds, wanted \in WantedLists :
               LET found == FindProps1(styles, gAllProps, style, ToFind(wanted))
               IN  \A i \in 1..Len(wanted) :
                       found[i].prop = NearestProp(styles, gAllProps, style, wanted[i])

\* C3 witness: the user style inherits from the base default and has its own
\* font name, which is not the font name of the base default; the font name
\* resolved from the user style is its own.
C3_Witness ==
    /\ gAllPropsPtr = "live"
    /\ last.op \in StyleWriters
    /\ styles["userStyle"].inheritsFrom = "gStyleDefault"
    /\ OwnProp(styles, gAllProps, "userStyle", "PropFontName") = 17
    /\ OwnProp(styles, gAllProps, "gStyleDefault", "PropFontName") = 1
    /\ FindProps1(styles, gAllProps, "userStyle",
                  ToFind(<<"PropFontName", "PropFontSize", "PropFontWeight">>))[1].prop = 17

\* Lists of wanted tags that the two-chain resolver is checked on.
WantedLists2 ==
    {<<"PropFontName", "PropFontSize", "PropFontWeight">>,
     <<"PropPadding", "PropBorderTopColor", "PropFontSize", "PropColor">>}

\* The second chains that the two-chain resolver is checked on.
SecondChains == {NullStyle, "gStyleDefault", "userStyle"}

\* C4. Chain fallback with first-chain precedence: in the two-chain resolver
\* a tag that a style of the first chain supplies is resolved from the first
\* chain (nearest style first), whatever the second chain holds, and a tag
\* that no style of the first chain supplies is resolved from the nearest
\* supplying style of the second chain.  Stated for the result of every
\* FindProp call, and, after every call that writes a style, for every first
\* chain, every second chain of SecondChains and every list of WantedLists2.
C4_ChainFallback ==
    /\ last.op = "FindProp" =>
           last.ret =
               IF NearestProp(styles, gAllProps, last.args[1], last.args[3]) # NULL
               THEN NearestProp(styles, gAllProps, last.args[1], last.args[3])
               ELSE NearestProp(styles, gAllProps, last.args[2], last.args[3])
    /\ (last.op \in StyleWriters /\ crashed = "none") =>
           \A first \in StyleIds \cup {NullStyle}, second \in SecondChains,
              wanted \in WantedLists2 :
               LET found == FindProps2(styles, gAllProps, first, second, ToFind(wanted))
               IN  \A i \in 1..Len(wanted) :
                       LET inFirst == NearestProp(styles, gAllProps, first, wanted[i])
                       IN  found[i].prop =
                               IF inFirst # NULL THEN inFirst
                               ELSE NearestProp(styles, gAllProps, second, wanted[i])

\* C4 witness: FindProp was called with a first chain (the user style, which
\* has a font size but no font name) and the base default as second chain,
\* and returned the font name of the base default.
C4_Witness ==
    /\ last.op = "FindProp"
    /\ last.args = <<"userStyle", "gStyleDefault", "PropFontName">>
    /\ styles["userStyle"].props = <<18>>
    /\ NearestProp(styles, gAllProps, "userStyle", "PropFontName") = NULL
    /\ last.ret = 1

\* This step is a call of Style::Set.
SetCalled ==
    /\ nCalls' = nCalls + 1
    /\ last'.op = "Set"

\* The positions of props whose property has the tag type.
WithTag(all, props, type) == {i \in 1..Len(props) : all[props[i]].type = type}

\* C5. Style override: while the core is initialized the property sequence
\* of a style never holds two properties of one tag; Set(prop) on a style that has an entry of the tag
\* of prop puts prop at the position of that entry and changes neither the
\* length nor another entry, Set(prop) on a style without such an entry
\* appends prop, and no other style changes; after SetBorderWidth and
\* SetBorderColor the style holds the four properties that were set, and its
\* entries of other tags are where they were.
C5_StyleOverride ==
    [][ /\ gAllPropsPtr' = "live" =>
              \A s \in StyleIds : \A i, j \in 1..Len(styles'[s].props) :
                  gAllProps'[styles'[s].props[i]].type
                          = gAllProps'[styles'[s].props[j]].type
                      => i = j
        /\ SetCalled =>
              LET s == last'.args[1]
                  prop == last'.args[2]
                  old == styles[s].props
                  new == styles'[s].props
                  has == WithTag(gAllProps, old, gAllProps[prop].type)
              IN  /\ has = {} => new = Append(old, prop)
                  /\ has # {} =>
                        /\ Len(new) = Len(old)
                        /\ \A i \in 1..Len(old) :
                              new[i] = IF i \in has THEN prop ELSE old[i]
                  /\ WithTag(gAllProps, new, gAllProps[prop].type) # {}
                  /\ \A i \in WithTag(gAllProps, new, gAllProps[prop].type) : new[i] = prop
                  /\ \A t \in StyleIds \ {s} : styles'[t] = styles[t]
        /\ (nCalls' = nCalls + 1 /\ last'.op \in {"SetBorderWidth", "SetBorderColor"}
                /\ crashed' = "none") =>
              LET s == last'.args[1]
                  old == styles[s].props
                  new == styles'[s].props
                  cands == IF last'.op = "SetBorderWidth"
                           THEN SetBorderWidthProps(last'.args[2])
                           ELSE SetBorderColorProps(last'.args[2])
                  tags == {cands[k].type : k \in 1..4}
              IN  /\ \A k \in 1..4 : \E i \in 1..Len(new) :
                        /\ gAllProps'[new[i]].type = cands[k].type
                        /\ gAllProps'[new[i]].kind = cands[k].kind
                        /\ gAllProps'[new[i]].val = cands[k].val
                  /\ \A i \in 1..Len(old) :
                        /\ i <= Len(new)
                        /\ gAllProps[old[i]].type \notin tags => new[i] = old[i]
                  /\ \A i \in 1..Len(new) :
                        i > Len(old) => gAllProps'[new[i]].type \in tags
      ]_vars

\* C5 witness: Set put the base font name in the button default style, which
\* had its own; the font name is where the old one was and the other three
\* entries are as before.
C5_Witness ==
    /\ last.op = "Set"
    /\ last.args = <<"gStyleButtonDefault", 1>>
    /\ styles["gStyleButtonDefault"].props = <<16, 1, 18, 3>>

\* This step is a call of Initialize.
InitializeCalled ==
    /\ last'.op = "Initialize"
    /\ crashed' # crashed \/ gAllPropsPtr' # gAllPropsPtr

\* C6. Initialization lifecycle: Initialize trips its assertion exactly when
\* the core is initialized (Initialize came last, with no Destroy since), and
\* otherwise, after a Destroy too, it leaves the core initialized.
C6_InitializeLifecycle ==
    [][ InitializeCalled =>
            IF gAllPropsPtr = "live"
            THEN crashed' = "Initialize"
            ELSE crashed' = "none" /\ gAllPropsPtr' = "live" ]_vars

\* C7. Teardown releases exactly once: after Destroy every Prop that was
\* created has been deleted once, the name of every Prop that owns one has
\* been freed once and no other name has been freed, and every Font that was
\* created has been deleted once; before Destroy nothing has been released.
C7_TeardownReleasesOnce ==
    /\ gAllPropsPtr = "dangling" =>
          /\ \A i \in 1..Len(propHeap) :
                /\ propHeap[i].deleted = 1
                /\ propHeap[i].nameFreed = (IF propHeap[i].ownsName THEN 1 ELSE 0)
          /\ \A f \in 1..Len(fonts) : fonts[f].deleted = 1
          /\ vecDeleted = [gAllProps |-> 1, gCachedFonts |-> 1]
    /\ gAllPropsPtr # "dangling" =>
          /\ \A i \in 1..Len(propHeap) :
                propHeap[i].deleted = 0 /\ propHeap[i].nameFreed = 0
          /\ \A f \in 1..Len(fonts) : fonts[f].deleted = 0
          /\ Len(propHeap) = Len(gAllProps)
          /\ \A f \in 1..Len(fonts) : \E i \in 1..Len(gCachedFonts) :
                gCachedFonts[i].font = f

\* C7 witness: Destroy ran after a constructor call that interned a font name
\* and a CachedFontFromProps call that created a font.
C7_Witness ==
    /\ gAllPropsPtr = "dangling"
    /\ last.op = "Destroy"
    /\ Len(fonts) = 1
    /\ Len(propHeap) = 22
    /\ propHeap[22].ownsName
    /\ propHeap[22].nameFreed = 1

ColorConstructorOps ==
    {"AllocColorSolid", "AllocColorSolidARGB", "AllocColorSolidRGB",
     "AllocColorSolidStr", "AllocColorLinearGradient", "AllocColorLinearGradientStr"}

\* C8. Color construction for a non-color tag is fatal: after a call of a
\* color constructor with a tag that is not a color tag the process has
\* stopped on an assertion, no Prop was returned and gAllProps has the
\* entries it had.
C8_ColorConstructorsAssert ==
    (last.op \in ColorConstructorOps /\ ~IsColorProp(last.args[1])) =>
        /\ crashed # "none"
        /\ last.ret = NULL
        /\ Len(gAllProps) = last.nProps

\* The property of tag type that the two chains resolve to.
Resolved(st, all, first, second, type) ==
    IF NearestProp(st, all, first, type) # NULL
    THEN NearestProp(st, all, first, type)
    ELSE NearestProp(st, all, second, type)

\* C9. Font resolution failure is fatal: a CachedFontFromProps call for which
\* no style of either chain supplies one of the three font tags stops on the
\* assertion of CachedFontFromProps, creates no Font and adds no cache entry;
\* a call for which all three are supplied does not stop.
C9_FontResolutionFailureFatal ==
    [][ CachedFontCalled =>
            IF \E type \in {"PropFontName", "PropFontSize", "PropFontWeight"} :
                  Resolved(styles, gAllProps, last'.args[1], last'.args[2], type) = NULL
            THEN /\ crashed' = "CachedFontFromProps"
                 /\ last'.ret = NULL
                 /\ fonts' = fonts
                 /\ gCachedFonts' = gCachedFonts
            ELSE crashed' = "none" ]_vars

\* C9 witness: CachedFontFromProps was called for a style that has a font
\* name but neither size nor weight, with no second chain, and stopped.
C9_Witness ==
    /\ last.op = "CachedFontFromProps"
    /\ last.args = <<"userStyle", NullStyle>>
    /\ styles["userStyle"].props = <<17>>
    /\ styles["userStyle"].inheritsFrom = NullStyle
    /\ crashed = "CachedFontFromProps"
    /\ fonts = <<>>
    /\ gCachedFonts = <<>>

\* C10. Interning distinctness: a constructor call returns an entry of
\* gAllProps that has the tag and the payload asked for, and changes no entry
\* that was there; when no entry had that tag and payload, the entry it
\* returns is new.  So calls that differ in tag or payload return different
\* entries, and both entries stay in gAllProps.
C10_InterningDistinctness ==
    [][ ConstructorReturned =>
            /\ last'.ret \in 1..Len(gAllProps')
            /\ SameValue(gAllProps'[last'.ret], Requested(last'))
            /\ \A i \in 1..Len(gAllProps) :
                  i <= Len(gAllProps') /\ gAllProps'[i] = gAllProps[i]
            /\ (\A i \in 1..Len(gAllProps) :
                    ~SameValue(gAllProps[i], Requested(last'))) =>
                  /\ last'.ret = Len(gAllProps) + 1
                  /\ Len(gAllProps') = Len(gAllProps) + 1 ]_vars

\* C10 witness: AllocPadding was called with a padding that differs from the
\* interned (0, 0, 0, 0) in its last field only, and returned a new entry.
C10_Witness ==
    /\ last.op = "AllocPadding"
    /\ last.args = <<0, 0, 0, 1>>
    /\ last.ret = 22
    /\ Len(gAllProps) = 22
    /\ gAllProps[15].type = "PropPadding"
    /\ gAllProps[15].val = [top |-> 0, right |-> 0, bottom |-> 0, left |-> 0]


\* ---------------------------------------------------------------- resolver calls

(***************************************************************************)
(* What FindProps(Style *props, ...) looks at from (curr, i) on, in order: *)
(* <<style, 0>> for a style that the while loop enters, <<style, i>> for   *)
(* the property props.At(i - 1) of the style that is handed to             *)
(* SetPropIfFound.                                                         *)
(***************************************************************************)
RECURSIVE FindPropsExamined(_, _, _, _, _)
FindPropsExamined(st, all, curr, i, propsToFind) ==
    IF curr = NullStyle THEN <<>>
    ELSE (IF i = 1 THEN << <<curr, 0>> >> ELSE <<>>)
         \o (IF i > Len(st[curr].props)
             THEN FindPropsExamined(st, all, st[curr].inheritsFrom, 1, propsToFind)
             ELSE LET r == SetPropIfFound(st[curr].props[i], propsToFind, all) IN
                  << <<curr, i>> >>
                  \o (IF r.didSet /\ FoundAllProps(r.propsToFind) THEN <<>>
                      ELSE FindPropsExamined(st, all, curr, i + 1, r.propsToFind)))

FindProps1Examined(st, all, props, propsToFind) ==
    FindPropsExamined(st, all, props, 1, propsToFind)

\* FindProps(first, second, ...): the first chain, then the second chain with
\* the slots as the first chain left them.
FindProps2Examined(st, all, first, second, propsToFind) ==
    FindProps1Examined(st, all, first, propsToFind)
        \o FindProps1Examined(st, all, second, FindProps1(st, all, first, propsToFind))

\* A PropToFind array whose slots are null, for the tags of wanted.
NullSlots(wanted) == [i \in 1..Len(wanted) |-> [type |-> wanted[i], prop |-> NULL]]

\* The Prop* of the slots of a PropToFind array.
SlotProps(propsToFind) == [i \in 1..Len(propsToFind) |-> propsToFind[i].prop]

FindFirstInputs == {"userStyle", "gStyleButtonMouseOver", NullStyle}
FindSecondInputs == {NullStyle, "gStyleDefault", "userStyle"}
FindWantedInputs ==
    {<<"PropFontName">>,
     <<"PropFontName", "PropFontSize", "PropFontWeight">>,
     <<"PropFontSize", "PropFontSize">>,
     <<"PropBorderTopColor", "PropFontName", "PropBorderTopColor">>}

\* FindProps(props, propsToFind, n) with null slots; what the caller reads
\* from the slots afterwards is the return value.
CallFindProps1(props, wanted) ==
    /\ Ready
    /\ last' = Call("FindProps", <<props, NullStyle, wanted>>,
                    [found |-> SlotProps(FindProps1(styles, gAllProps, props,
                                                    NullSlots(wanted))),
                     examined |-> FindProps1Examined(styles, gAllProps, props,
                                                     NullSlots(wanted))])
    /\ nCalls' = nCalls + 1
    /\ UNCHANGED <<gAllPropsPtr, gAllProps, gCachedFonts, styles, propHeap,
                   fonts, vecDeleted, crashed>>

\* FindProps(first, second, propsToFind, n) with null slots.
CallFindProps2(first, second, wanted) ==
    /\ Ready
    /\ last' = Call("FindProps2", <<first, second, wanted>>,
                    [found |-> SlotProps(FindProps2(styles, gAllProps, first, second,
                                                    NullSlots(wanted))),
                     examined |-> FindProps2Examined(styles, gAllProps, first, second,
                                                     NullSlots(wanted))])
    /\ nCalls' = nCalls + 1
    /\ UNCHANGED <<gAllPropsPtr, gAllProps, gCachedFonts, styles, propHeap,
                   fonts, vecDeleted, crashed>>

\* The core with the calls that edit styles and the two FindProps overloads.
NextFind ==
    \/ Initialize
    \/ \E style \in SetStyleInputs, prop \in 1..Len(gAllProps) :
            /\ gAllProps[prop].type \in SetTagInputs
            /\ Set(style, prop)
    \/ \E style \in UserStyles, parent \in ParentInputs : SetInheritsFrom(style, parent)
    \/ \E props \in FindFirstInputs, wanted \in FindWantedInputs :
            CallFindProps1(props, wanted)
    \/ \E first \in FindFirstInputs, second \in FindSecondInputs,
          wanted \in FindWantedInputs :
            CallFindProps2(first, second, wanted)

SpecFind == Init /\ [][NextFind]_vars

FindOps == {"FindProps", "FindProps2"}

\* The tag of slot i is supplied by a style of one of the two chains of the
\* call recorded in last.
SlotSupplied(i) ==
    Resolved(styles, gAllProps, last.args[1], last.args[2], last.args[3][i]) # NULL

\* Slot i is the first slot of its tag in the list of the call recorded in last.
FirstSlotOfTag(i) == \A j \in 1..(i - 1) : last.args[3][j] # last.args[3][i]

\* C11 as stated. Unresolved tags stay null: after FindProps over one or two
\* chains, for any list of wanted tags, lists that name a tag more than once
\* included, a slot is non-null exactly when a style of one of the chains
\* supplies the tag of the slot, and the call raises no error.
C11_SlotNonNullIffSupplied ==
    last.op \in FindOps =>
        /\ crashed = "none"
        /\ \A i \in 1..Len(last.args[3]) :
              last.ret.found[i] # NULL <=> SlotSupplied(i)

\* C11 amended. After FindProps over one or two chains a slot is non-null
\* exactly when a style of one of the chains supplies the tag of the slot
\* and no earlier slot of the list has the same tag (of the slots of one tag
\* only the first is ever written); then it holds the nearest supplier's
\* property; the call raises no error.
C11_FirstSlotNonNullIffSupplied ==
    last.op \in FindOps =>
        /\ crashed = "none"
        /\ \A i \in 1..Len(last.args[3]) :
              /\ last.ret.found[i] # NULL <=> (SlotSupplied(i) /\ FirstSlotOfTag(i))
              /\ last.ret.found[i] # NULL =>
                    last.ret.found[i] = Resolved(styles, gAllProps, last.args[1],
                                                 last.args[2], last.args[3][i])

\* C11 witness: FindProps on a style that has a top border color only and
\* inherits from nothing, for the list top border color, font name, top
\* border color: the first slot holds the color, the slot of the font name,
\* which no style supplies, is null, and so is the second slot of the color.
C11_Witness ==
    /\ last.op = "FindProps"
    /\ last.args = <<"userStyle", NullStyle,
                     <<"PropBorderTopColor", "PropFontName", "PropBorderTopColor">> >>
    /\ styles["userStyle"].props = <<19>>
    /\ styles["userStyle"].inheritsFrom = NullStyle
    /\ last.ret.found = <<19, NULL, NULL>>
    /\ crashed = "none"

\* Color strings that are in none of the forms ParseCssColor knows.
UnrecognizedColorStrs == {Str_bogus}

\* C12. Unparseable color strings fall back silently: AllocColorSolid(tag,
\* string) with a color tag and a string in none of the recognized forms
\* trips no assertion and returns the entry of gAllProps with that tag and
\* the solid color 0x00000000; there is one such entry only, and it is the
\* one the string "transparent" yields.
C12_UnparseableColorFallsBack ==
    (/\ last.op = "AllocColorSolidStr"
     /\ IsColorProp(last.args[1])
     /\ last.args[2] \in UnrecognizedColorStrs \cup {Str_transparent})
    => /\ crashed = "none"
       /\ last.ret \in 1..Len(gAllProps)
       /\ gAllProps[last.ret].type = last.args[1]
       /\ gAllProps[last.ret].kind = "color"
       /\ gAllProps[last.ret].val = [type |-> "ColorSolid", color |-> <<0, 0, 0, 0>>]
       /\ \A j \in 1..Len(gAllProps) :
             gAllProps[j] = gAllProps[last.ret] => j = last.ret

\* C12 witness: AllocColorSolid(PropColor, "bogus") has returned the entry
\* that an earlier call made for transparent PropColor, and added nothing.
C12_Witness ==
    /\ last.op = "AllocColorSolidStr"
    /\ last.args = <<"PropColor", Str_bogus>>
    /\ crashed = "none"
    /\ last.nProps = Len(gAllProps)
    /\ last.ret = Len(gAllProps)
    /\ gAllProps[last.ret].val = [type |-> "ColorSolid", color |-> <<0, 0, 0, 0>>]

\* The slots after the first k entries of a sequence of examined styles and
\* properties, from the slots given.
RECURSIVE SlotsAfter(_, _, _)
SlotsAfter(examined, k, propsToFind) ==
    IF k = 0 THEN propsToFind
    ELSE LET before == SlotsAfter(examined, k - 1, propsToFind)
             e == examined[k]
         IN  IF e[2] = 0 THEN before
             ELSE SetPropIfFound(styles[e[1]].props[e[2]], before, gAllProps).propsToFind

\* Every tag of the list has a slot that is set.
AllTagsResolved(propsToFind) ==
    \A i \in 1..Len(propsToFind) :
        \E j \in 1..Len(propsToFind) :
            /\ propsToFind[j].type = propsToFind[i].type
            /\ propsToFind[j].prop # NULL

\* C13. Early exit of resolution: in a FindProps call (one chain or two), once
\* every wanted tag is resolved no further property and no further style is
\* examined; in particular when the first chain resolves every wanted tag
\* nothing of the second chain is visited.
C13_EarlyExit ==
    last.op \in FindOps =>
        /\ \A k \in 1..(Len(last.ret.examined) - 1) :
              ~AllTagsResolved(SlotsAfter(last.ret.examined, k, NullSlots(last.args[3])))
        /\ AllTagsResolved(FindProps1(styles, gAllProps, last.args[1],
                                      NullSlots(last.args[3])))
              => last.ret.examined = FindProps1Examined(styles, gAllProps, last.args[1],
                                                        NullSlots(last.args[3]))

\* The styles of the chain that starts at style, nearest first.
RECURSIVE ChainSeq(_, _)
ChainSeq(st, style) ==
    IF style = NullStyle THEN <<>>
    ELSE <<style>> \o ChainSeq(st, st[style].inheritsFrom)

\* Names for the styles of a chain built from copies.
CopyIds == <<"copy1", "copy2", "copy3", "copy4", "copy5", "copy6", "copy7", "copy8">>

\* One chain made of copies of the styles of the chain of first followed by
\* copies of the styles of the chain of second: copy k has the properties of
\* the k-th style and inherits from copy k + 1, the last from nothing.
Concatenated(st, first, second) ==
    LET c == ChainSeq(st, first) \o ChainSeq(st, second)
    IN  [id \in {CopyIds[k] : k \in 1..Len(c)} |->
            LET k == CHOOSE k \in 1..Len(c) : CopyIds[k] = id
            IN  [props |-> st[c[k]].props,
                 inheritsFrom |-> IF k = Len(c) THEN NullStyle ELSE CopyIds[k + 1],
                 deleted |-> 0]]

\* The first style of Concatenated(st, first, second).
ConcatenatedHead(st, first, second) ==
    IF first = NullStyle /\ second = NullStyle THEN NullStyle ELSE CopyIds[1]

\* C14. Two-chain equivalence: FindProps(first, second, wanted) leaves in every
\* slot what the single-chain FindProps leaves there on one chain made of the
\* styles of the first chain followed by the styles of the second chain, and
\* the call changes no property sequence and no inheritsFrom link (nor
\* anything else of the core).
C14_TwoChainEquivalence ==
    [][last'.op = "FindProps2" =>
          /\ styles' = styles
          /\ UNCHANGED <<gAllPropsPtr, gAllProps, gCachedFonts, propHeap, fonts,
                         vecDeleted, crashed>>
          /\ last'.ret.found =
                SlotProps(FindProps1(
                    Concatenated(styles, last'.args[1], last'.args[2]), gAllProps,
                    ConcatenatedHead(styles, last'.args[1], last'.args[2]),
                    NullSlots(last'.args[3])))]_vars

\* C14 witness: FindProps(userStyle, gStyleDefault, ...) for the three font
\* tags, userStyle having a font name only and no parent: the name comes from
\* the first chain, size and weight from the second.
C14_Witness ==
    /\ last.op = "FindProps2"
    /\ last.args = <<"userStyle", "gStyleDefault",
                     <<"PropFontName", "PropFontSize", "PropFontWeight">> >>
    /\ styles["userStyle"].props = <<17>>
    /\ styles["userStyle"].inheritsFrom = NullStyle
    /\ last.ret.found = <<17, 2, 3>>

\* The Props of cands that have no entry of the same tag and payload in all.
NotInterned(cands, all) ==
    SelectSeq(cands, LAMBDA p : \A i \in 1..Len(all) : ~SameValue(all[i], p))

\* The four Props that the SetBorderWidth or SetBorderColor call c asks for.
BorderRequested(c) ==
    IF c.op = "SetBorderWidth" THEN SetBorderWidthProps(c.args[2])
    ELSE SetBorderColorProps(c.args[2])

\* C15. Append-only shared state: between Initialize and Destroy every call
\* leaves each entry of gAllProps and of gCachedFonts as it is and where it
\* is.  gAllProps grows only at its end, by the requested Prop of a
\* constructor call when no entry has its tag and payload (for SetBorderWidth
\* and SetBorderColor: by those of their four Props that have none);
\* gCachedFonts grows only at its end, by one entry, in a CachedFontFromProps
\* call whose three resolved Props are the key of no entry.
C15_AppendOnly ==
    [][(gAllPropsPtr = "live" /\ last'.op \notin {"Initialize", "Destroy"}) =>
          /\ Len(gAllProps') >= Len(gAllProps)
          /\ \A i \in 1..Len(gAllProps) : gAllProps'[i] = gAllProps[i]
          /\ Len(gCachedFonts') >= Len(gCachedFonts)
          /\ \A i \in 1..Len(gCachedFonts) : gCachedFonts'[i] = gCachedFonts[i]
          /\ gAllProps' =
                IF crashed' # "none" THEN gAllProps
                ELSE IF last'.op \in ConstructorOps
                THEN gAllProps \o NotInterned(<<Requested(last')>>, gAllProps)
                ELSE IF last'.op \in {"SetBorderWidth", "SetBorderColor"}
                THEN gAllProps \o NotInterned(BorderRequested(last'), gAllProps)
                ELSE gAllProps
          /\ last'.op # "CachedFontFromProps" => gCachedFonts' = gCachedFonts
          /\ last'.op = "CachedFontFromProps" =>
                LET key == [t \in {"PropFontName", "PropFontSize", "PropFontWeight"} |->
                               Resolved(styles, gAllProps, last'.args[1],
                                        last'.args[2], t)]
                    hit == \E i \in 1..Len(gCachedFonts) :
                              /\ gCachedFonts[i].fontName = key["PropFontName"]
                              /\ gCachedFonts[i].fontSize = key["PropFontSize"]
                              /\ gCachedFonts[i].fontWeight = key["PropFontWeight"]
                IN  Len(gCachedFonts') =
                        IF crashed' = "none" /\ ~hit THEN Len(gCachedFonts) + 1
                        ELSE Len(gCachedFonts)
       ]_vars

\* C15 witness: after AllocFontSize added entry 22 to the 21 entries of
\* Initialize, a CachedFontFromProps call added the first entry of the font
\* cache; the 22 entries are still there.
C15_Witness ==
    /\ last.op = "CachedFontFromProps"
    /\ crashed = "none"
    /\ last.nFonts = 0
    /\ Len(gCachedFonts) = 1
    /\ Len(gAllProps) = 22
    /\ gAllProps[22].kind = "fontSize"

\* The style whose own property a resolution from the button-hover style
\* is to give, for each tag.
HoverOwner(type) ==
    IF type \in {"PropBorderTopColor", "PropBorderRightColor", "PropBorderBottomColor"}
    THEN "gStyleButtonMouseOver"
    ELSE IF type \in {"PropPadding", "PropFontName", "PropFontSize", "PropFontWeight"}
    THEN "gStyleButtonDefault"
    ELSE "gStyleDefault"

\* The same for a resolution from the button default style.
ButtonOwner(type) ==
    IF type \in {"PropPadding", "PropFontName", "PropFontSize", "PropFontWeight"}
    THEN "gStyleButtonDefault"
    ELSE "gStyleDefault"

\* C16. Default style wiring: right after Initialize, resolving any of the 14
\* tags from gStyleButtonMouseOver gives a non-null Prop: the hover style's
\* own for the top, right and bottom border colors, the button default's own
\* for padding, font name, font size and font weight, the base default's own
\* for every other tag; resolving from gStyleButtonDefault gives the base
\* default's own for every tag but padding, font name, font size and font
\* weight.
C16_DefaultStyleWiring ==
    (last.op = "Initialize" /\ crashed = "none") =>
        /\ \A t \in PropTypes :
              /\ FindProp(styles, gAllProps, "gStyleButtonMouseOver", NullStyle, t) # NULL
              /\ FindProp(styles, gAllProps, "gStyleButtonMouseOver", NullStyle, t)
                    = OwnProp(styles, gAllProps, HoverOwner(t), t)
              /\ FindProp(styles, gAllProps, "gStyleButtonDefault", NullStyle, t) # NULL
              /\ FindProp(styles, gAllProps, "gStyleButtonDefault", NullStyle, t)
                    = OwnProp(styles, gAllProps, ButtonOwner(t), t)
        /\ gAllProps[FindProp(styles, gAllProps, "gStyleButtonMouseOver", NullStyle,
                              "PropBorderBottomColor")].val
              = [type |-> "ColorSolid", color |-> <<255, 102, 102, 102>>]
        /\ gAllProps[FindProp(styles, gAllProps, "gStyleButtonDefault", NullStyle,
                              "PropBorderBottomColor")].val
              = [type |-> "ColorSolid", color |-> <<255, 136, 136, 136>>]
        /\ gAllProps[FindProp(styles, gAllProps, "gStyleButtonMouseOver", NullStyle,
                              "PropBorderLeftColor")].val
              = [type |-> "ColorSolid", color |-> <<255, 153, 153, 153>>]
        /\ gAllProps[FindProp(styles, gAllProps, "gStyleButtonMouseOver", NullStyle,
                              "PropFontName")].val = "Lucida Grande"
        /\ gAllProps[FindProp(styles, gAllProps, "gStyleButtonMouseOver", NullStyle,
                              "PropPadding")].val
              = [top |-> 4, right |-> 8, bottom |-> 4, left |-> 8]

\* C16 witness: Initialize has just returned, and the hover style resolves
\* its bottom border color from itself and its font size from the button
\* default style.
C16_Witness ==
    /\ last.op = "Initialize"
    /\ crashed = "none"
    /\ FindProp(styles, gAllProps, "gStyleButtonMouseOver", NullStyle,
                "PropBorderBottomColor") = styles["gStyleButtonMouseOver"].props[3]
    /\ FindProp(styles, gAllProps, "gStyleButtonMouseOver", NullStyle,
                "PropFontSize") = styles["gStyleButtonDefault"].props[3]

\* C17. Teardown of the singleton styles: after Initialize, any calls and one
\* Destroy, gStyleButtonDefault and gStyleButtonMouseOver have been deleted
\* once each, gStyleDefault has not been deleted, and everything else the
\* core created (every Prop, every Font, the two Vecs) has been deleted once:
\* gStyleDefault is the only object of the core that is not released.  Before
\* Destroy no style has been deleted.
C17_TeardownOfStyles ==
    /\ gAllPropsPtr = "dangling" =>
          /\ styles["gStyleButtonDefault"].deleted = 1
          /\ styles["gStyleButtonMouseOver"].deleted = 1
          /\ {s \in GlobalStyles : styles[s].deleted = 0} = {"gStyleDefault"}
          /\ {i \in 1..Len(propHeap) : propHeap[i].deleted # 1} = {}
          /\ {f \in 1..Len(fonts) : fonts[f].deleted # 1} = {}
          /\ vecDeleted.gAllProps = 1
          /\ vecDeleted.gCachedFonts = 1
    /\ gAllPropsPtr # "dangling" =>
          \A s \in GlobalStyles : styles[s].deleted = 0

\* C17 witness: Destroy has run after calls that created a Font; the two
\* button styles and the Font are deleted, gStyleDefault is not.
C17_Witness ==
    /\ last.op = "Destroy"
    /\ nCalls = 2
    /\ styles["gStyleButtonDefault"].deleted = 1
    /\ styles["gStyleButtonMouseOver"].deleted = 1
    /\ styles["gStyleDefault"].deleted = 0
    /\ Len(fonts) = 1
    /\ fonts[1].deleted = 1

\* ---------------------------------------------------------------- font calls

\* A call is left in the bound of the font calls.
ReadyFont == Running /\ nCalls < MaxFontCalls

FontConstructorOps == {"AllocFontName", "AllocFontSize", "AllocFontWeight"}
FontFirstInputs == {"userStyle", NullStyle}
FontSecondInputs == {NullStyle, "gStyleDefault"}

\* Prop::AllocFontName(name), Prop::AllocFontSize(size) and
\* Prop::AllocFontWeight(style) by a caller that builds the font of a style.
FontAllocFontName(name) ==
    ReadyFont /\ ConstructBody("AllocFontName", <<name>>, FontNameProp(name))

FontAllocFontSize(size) ==
    ReadyFont /\ ConstructBody("AllocFontSize", <<size>>, FontSizeProp(size))

FontAllocFontWeight(style) ==
    ReadyFont /\ ConstructBody("AllocFontWeight", <<style>>, FontWeightProp(style))

\* style->Set(prop) with the Prop that the constructor call before it
\* returned, as in style->Set(Prop::AllocFontName(name)).
FontSet(style) ==
    /\ ReadyFont
    /\ last.op \in FontConstructorOps
    /\ SetBody(style, last.ret)

FontCachedFontFromProps(first, second) ==
    ReadyFont /\ CachedFontFromPropsBody(first, second)

\* The core with the calls that build the font of userStyle and ask for fonts.
NextFont ==
    \/ Initialize
    \/ \E name \in NameInputs : FontAllocFontName(name)
    \/ \E size \in SizeInputs : FontAllocFontSize(size)
    \/ \E style \in WeightInputs : FontAllocFontWeight(style)
    \/ \E style \in UserStyles : FontSet(style)
    \/ \E first \in FontFirstInputs, second \in FontSecondInputs :
            FontCachedFontFromProps(first, second)

SpecFont == Init /\ [][NextFont]_vars

FontTags == <<"PropFontName", "PropFontSize", "PropFontWeight">>

\* The name, size and weight that the Font of the cache entry e was made of.
FontValues(fs, e) == <<fs[e.font].name, fs[e.font].size, fs[e.font].style>>

\* The three Props that a request through first and second resolves to, by
\* NearestProp.
ResolvedFontProps(st, all, first, second) ==
    [k \in 1..3 |-> Resolved(st, all, first, second, FontTags[k])]

\* The name, size and weight of three Props.
PropValues(all, ps) == [k \in 1..3 |-> all[ps[k]].val]

\* C18. One font per value triple: no two entries of the font cache are for
\* the same font name string, font size and font weight; a CachedFontFromProps
\* call whose resolved name, size and weight are equal in value to those of
\* an entry returns the font of that entry and makes no Font; and any
\* request, through whatever styles, that resolves to the same three values
\* as the call resolves to the same three Props, hence to the same entry and
\* the same font; and of two requests made one after the other, through
\* whatever styles, that resolve to equal names, sizes and weights, the
\* second returns the font that the first returned and makes no Font.
C18_OneFontPerValueTriple ==
    [][ /\ \A i, j \in 1..Len(gCachedFonts') :
              FontValues(fonts', gCachedFonts'[i]) = FontValues(fonts', gCachedFonts'[j])
                  => i = j
        /\ (CachedFontCalled /\ crashed' = "none") =>
              LET mine == ResolvedFontProps(styles, gAllProps, last'.args[1],
                                            last'.args[2])
              IN  /\ \A i \in 1..Len(gCachedFonts) :
                        FontValues(fonts, gCachedFonts[i]) = PropValues(gAllProps, mine)
                            => last'.ret = gCachedFonts[i].font /\ fonts' = fonts
                  /\ FontValues(fonts', [font |-> last'.ret]) = PropValues(gAllProps, mine)
                  /\ \A first \in StyleIds \cup {NullStyle}, second \in SecondChains :
                        LET other == ResolvedFontProps(styles, gAllProps, first, second)
                        IN  ( /\ \A k \in 1..3 : other[k] # NULL
                              /\ PropValues(gAllProps, other) = PropValues(gAllProps, mine) )
                            => other = mine
        /\ (CachedFontCalled /\ last.op = "CachedFontFromProps" /\ crashed' = "none") =>
              LET prev == ResolvedFontProps(styles, gAllProps, last.args[1],
                                            last.args[2])
                  mine == ResolvedFontProps(styles, gAllProps, last'.args[1],
                                            last'.args[2])
              IN  PropValues(gAllProps, prev) = PropValues(gAllProps, mine)
                      => last'.ret = last.ret /\ fonts' = fonts
      ]_vars

\* C18 witness: a request made the font for Times New Roman, 14, bold, the
\* values of the Props that Initialize built for gStyleDefault.  userStyle,
\* which inherits from no style, was given a font name, a font size and a
\* font weight of the same values, each built by a constructor call of its
\* own and set by the Set call after it.  The last request, through userStyle
\* alone, returned that font and made none.
C18_Witness ==
    /\ nCalls = 8
    /\ last.op = "CachedFontFromProps"
    /\ last.args = <<"userStyle", NullStyle>>
    /\ last.nFonts = 1
    /\ Len(fonts) = 1
    /\ Len(gCachedFonts) = 1
    /\ last.ret = 1
    /\ FontValues(fonts, gCachedFonts[1]) = <<"Times New Roman", 14, "FontStyleBold">>
    /\ styles["userStyle"].inheritsFrom = NullStyle
    /\ Len(styles["userStyle"].props) = 3
    /\ ResolvedFontProps(styles, gAllProps, "userStyle", NullStyle)
          = ResolvedFontProps(styles, gAllProps, NullStyle, "gStyleDefault")
    /\ crashed = "none"

\* C19. Width payload only under width tags: whatever tags the constructors
\* are called with, every entry of gAllProps that AllocWidth built (its
\* written member is width) has one of the four border width tags.
C19_WidthPayloadOnlyUnderWidthTags ==
    \A i \in 1..Len(gAllProps) :
        gAllProps[i].kind = "width" => IsWidthProp(gAllProps[i].type)


\* ---------------------------------------------------------------- ParseCssColor alone

\* The decimal digits of n >= 0, as a string.
RECURSIVE DecStr(_)
DecStr(n) ==
    IF n < 10 THEN <<DecDigits[n + 1]>>
    ELSE DecStr(n \div 10) \o <<DecDigits[(n % 10) + 1]>>

\* The string "rgb(r%,g%,b%)".
RgbPctStr(r, g, b) ==
    <<"r", "g", "b", "(">> \o DecStr(r) \o <<"%", ",">> \o DecStr(g)
        \o <<"%", ",">> \o DecStr(b) \o <<"%", ")">>

\* The percentages of the n-th color string: each of the three channels takes
\* every value from 0 to 100 as n goes from 0 to 100.
PctOf(n) == <<n, 100 - n, (7 * n) % 101>>

PctStrInputs == {RgbPctStr(PctOf(n)[1], PctOf(n)[2], PctOf(n)[3]) : n \in 0..100}

\* A color string is chosen; nothing else exists.
InitColor ==
    /\ gAllPropsPtr = "NULL"
    /\ gAllProps = <<>>
    /\ gCachedFonts = <<>>
    /\ styles = [s \in StyleIds |-> NewStyle]
    /\ propHeap = <<>>
    /\ fonts = <<>>
    /\ vecDeleted = [gAllProps |-> 0, gCachedFonts |-> 0]
    /\ crashed = "none"
    /\ nCalls = 0
    /\ \E color \in PctStrInputs \cup ColorStrInputs :
          last = [op |-> "none", args |-> <<color>>, ret |-> NULL,
                  nProps |-> 0, nFonts |-> 0]

\* ParseCssColor(color) for the string chosen.
ParseColor ==
    /\ last.op = "none"
    /\ last' = Call("ParseCssColor", last.args, ParseCssColor(last.args[1]))
    /\ UNCHANGED <<gAllPropsPtr, gAllProps, gCachedFonts, styles, propHeap,
                   fonts, vecDeleted, crashed, nCalls>>

NextColor == ParseColor

SpecColor == InitColor /\ [][NextColor]_vars

\* C20. The percentage rgb form is opaque: ParseCssColor of "rgb(r%,g%,b%)",
\* r, g and b whole numbers from 0 to 100, has alpha 255 and for red, green
\* and blue the percentage times 2.55 with the fraction dropped.
C20_PercentRgbOpaque ==
    last.op = "ParseCssColor" =>
        \A n \in 0..100 :
            last.args[1] = RgbPctStr(PctOf(n)[1], PctOf(n)[2], PctOf(n)[3]) =>
                last.ret = << 255,
                              (PctOf(n)[1] * 255) \div 100,
                              (PctOf(n)[2] * 255) \div 100,
                              (PctOf(n)[3] * 255) \div 100 >>

====
